---------------------------- MODULE Spec2Model ----------------------------
(***************************************************************************)
(* Model of the Gitea Remote Repositories extension: the gitea:// URI      *)
(* codec, the read-only virtual filesystem provider, the protocol          *)
(* detection and the operations of the API client, the sync status and     *)
(* the push of a local clone, the credential store, the connect and        *)
(* disconnect commands, the enumeration of local clones, the clone         *)
(* command, requests and credential calls that run concurrently, the       *)
(* opening of remote files, the refresh timer and the pull request and     *)
(* settings commands.                                                      *)
(*                                                                         *)
(* Strings of the program are sequences of one-character strings, so that  *)
(* split, slice, startsWith, includes and replace are computed as the      *)
(* code computes them.                                                     *)
(***************************************************************************)
EXTENDS Naturals, Integers, Sequences, FiniteSets, TLC

VARIABLES
    codecArgs,      \* arguments handed to createGiteaUri
    codecUri,       \* the URI string under work (built, or supplied raw)
    codecParsed,    \* result of parseGiteaUri on codecUri
    codecPhase,     \* "args" | "built" | "raw" | "parsedBuilt" | "parsedRaw"
    fsCache,        \* GiteaFileSystemProvider.cache: uri string -> bytes
    fsClients,      \* GiteaFileSystemProvider.clients: servers with a client
    fsLast,         \* the last provider call and what it did
    fsFirst,        \* history: bytes of the first successful read per uri
    authTokens,     \* AuthManager: servers that have a token
    remote,         \* the forge: what each address holds
    clBaseUrl,      \* GiteaClient.baseUrl
    clCtorUrl,      \* history: the base URL the constructor computed
    clDetected,     \* GiteaClient.protocolDetected
    clProbes,       \* history: the probes detectProtocol sent, in order
    clDetections,   \* history: how often detectProtocol ran
    clRequests,     \* history: how many requests were sent
    clLast,         \* history: the last request sent and its outcome
    wcHasGit,       \* the working copy has a .git directory
    wcFiles,        \* status code of each file of the working copy
    wcTracking,     \* the current branch has an upstream tracking ref
    wcLocal,        \* commits reachable from HEAD
    wcUpstream,     \* commits reachable from the upstream ref
    syncLast,       \* history: the getSyncStatus call just made, if any
    pushLast,       \* history: the last syncToGitea run
    apiLast,        \* history: the last client operation and its result
    amVault,        \* SecretStorage: the value under each key
    amCache,        \* AuthManager.configCache
    amLatest,       \* history: per server, the token last set and not deleted
    amLast,         \* history: the last AuthManager call
    cfgHost,        \* Settings: g2r.host
    cfgToken,       \* Settings: g2r.token
    currentServer,  \* extension.ts: currentServer (string or null)
    treeServer,     \* RepositoryTreeProvider: the server set by setServer
    knownServers,   \* workspaceState: gitea.servers
    testedOwn,      \* history: (server, token) tested since that server was disconnected
    testedSince,    \* history: (server, token) tested since the last disconnect
    sessLast,       \* history: the last session command
    rootExists,     \* the clone root exists
    rootEntries,    \* the entries of the clone root, in readdir order
    listLast,       \* history: the getLocalRepositories call just made, if any
    cloneJob,       \* performLocalClone: targetDir and removeExisting of the last call
    cloneProc,      \* the git child process: none, running, killed, closed
    taskPromise,    \* the promise the progress task returns (gitResolve, gitReject)
    clonePromise,   \* the promise performLocalClone returns to cloneToLocal
    cloneCancelled, \* history: the cancel handler ran for the last clone
    closeCode,      \* history: the code of the close event of the last clone
    cloneShown,     \* messages shown for the last clone
    diskDirs,       \* what each target folder is on disk
    metaFiles,      \* the .gitea-remote.json of each folder that has one
    prBaseUrl,      \* this.baseUrl of the shared client
    prDetected,     \* this.protocolDetected of the shared client
    prRuns,         \* how many times detectProtocol was entered
    prReq,          \* where each concurrent request is
    crVault,        \* the secret storage under concurrent calls
    crCache,        \* the configCache map under concurrent calls
    crCall,         \* where each concurrent AuthManager call is
    opServer,       \* currentServer: the server string of the last connect
    opKeys,         \* the server strings the Credential Store holds a token for
    opTree,         \* owner, repo and branch of the file tree provider
    opLast,         \* the last run of handleOpenFile
    tmPhase,        \* inactive, active or deactivated
    tmScheduled,    \* the interval timers that are scheduled
    refreshTimer,   \* the module variable refreshTimer
    tmDisposables,  \* how many disposables startAutoRefresh pushed and are not disposed
    tmTicks,        \* how often each timer has fired
    tmHost,         \* the host setting
    tmToken,        \* the token setting
    tmRequests,     \* the requests the timer callbacks issued
    cmHost,         \* the g2r.host setting
    cmToken,        \* the g2r.token setting
    cmLast          \* the last run of a command handler

codecVars == <<codecArgs, codecUri, codecParsed, codecPhase>>
fsVars == <<fsCache, fsClients, fsLast, fsFirst, authTokens, remote>>
clientVars == <<clBaseUrl, clCtorUrl, clDetected, clProbes, clDetections,
                clRequests, clLast>>
syncVars == <<wcHasGit, wcFiles, wcTracking, wcLocal, wcUpstream, syncLast>>
pushVars == <<pushLast>>
apiVars == <<apiLast>>
authVars == <<amVault, amCache, amLatest, amLast>>
sessionVars == <<cfgHost, cfgToken, currentServer, treeServer, knownServers, testedOwn, testedSince, sessLast>>
localVars == <<rootExists, rootEntries, listLast>>
cloneVars == <<cloneJob, cloneProc, taskPromise, clonePromise, cloneCancelled, closeCode, cloneShown, diskDirs, metaFiles>>
probeVars == <<prBaseUrl, prDetected, prRuns, prReq>>
credVars == <<crVault, crCache, crCall>>
openVars == <<opServer, opKeys, opTree, opLast>>
timerVars == <<tmPhase, tmScheduled, refreshTimer, tmDisposables, tmTicks, tmHost, tmToken, tmRequests>>
cmdVars == <<cmHost, cmToken, cmLast>>

\* what a step of one component leaves alone
NotCodec == <<fsVars, clientVars, syncVars, pushVars, apiVars, authVars, sessionVars, localVars, cloneVars, probeVars, credVars, openVars, timerVars, cmdVars>>
NotFs == <<codecVars, clientVars, syncVars, pushVars, apiVars, authVars, sessionVars, localVars, cloneVars, probeVars, credVars, openVars, timerVars, cmdVars>>
NotClient == <<codecVars, fsVars, syncVars, pushVars, apiVars, authVars, sessionVars, localVars, cloneVars, probeVars, credVars, openVars, timerVars, cmdVars>>
NotSync == <<codecVars, fsVars, clientVars, apiVars, authVars, sessionVars, localVars, cloneVars, probeVars, credVars, openVars, timerVars, cmdVars>>
NotPush == <<codecVars, fsVars, clientVars, apiVars, authVars, sessionVars, localVars, cloneVars, probeVars, credVars, openVars, timerVars, cmdVars>>
NotApi == <<codecVars, fsVars, syncVars, pushVars, authVars, sessionVars, localVars, cloneVars, probeVars, credVars, openVars, timerVars, cmdVars>>
NotAuth == <<codecVars, fsVars, clientVars, syncVars, pushVars, apiVars, sessionVars, localVars, cloneVars, probeVars, credVars, openVars, timerVars, cmdVars>>
NotSession == <<codecVars, clientVars, syncVars, pushVars, apiVars, localVars, cloneVars, probeVars, credVars, openVars, timerVars, cmdVars>>
NotLocal == <<codecVars, fsVars, clientVars, syncVars, pushVars, apiVars, authVars, sessionVars, cloneVars, probeVars, credVars, openVars, timerVars, cmdVars>>
NotClone == <<codecVars, fsVars, clientVars, syncVars, pushVars, apiVars, authVars, sessionVars, localVars, probeVars, credVars, openVars, timerVars, cmdVars>>
NotProbe == <<codecVars, fsVars, clientVars, syncVars, pushVars, apiVars, authVars, sessionVars, localVars, cloneVars, credVars, openVars, timerVars, cmdVars>>
NotCred == <<codecVars, fsVars, clientVars, syncVars, pushVars, apiVars, authVars, sessionVars, localVars, cloneVars, probeVars, openVars, timerVars, cmdVars>>
NotOpen == <<codecVars, fsVars, clientVars, syncVars, pushVars, apiVars, authVars, sessionVars, localVars, cloneVars, probeVars, credVars, timerVars, cmdVars>>
NotTimer == <<codecVars, fsVars, clientVars, syncVars, pushVars, apiVars, authVars, sessionVars, localVars, cloneVars, probeVars, credVars, openVars, cmdVars>>
NotCmd == <<codecVars, fsVars, clientVars, syncVars, pushVars, apiVars, authVars, sessionVars, localVars, cloneVars, probeVars, credVars, openVars, timerVars>>

(***************************************************************************)
(* String primitives (JavaScript String.prototype)                         *)
(***************************************************************************)
StartsWith(s, p) ==
    /\ Len(p) <= Len(s)
    /\ SubSeq(s, 1, Len(p)) = p

EndsWith(s, p) ==
    /\ Len(p) <= Len(s)
    /\ SubSeq(s, Len(s) - Len(p) + 1, Len(s)) = p

RECURSIVE IndexFrom(_, _, _)
\* 1-based index of the first occurrence of p in s at or after i, else 0
IndexFrom(s, p, i) ==
    IF i + Len(p) - 1 > Len(s) THEN 0
    ELSE IF SubSeq(s, i, i + Len(p) - 1) = p THEN i
    ELSE IndexFrom(s, p, i + 1)

\* 1-based index of the first occurrence of p in s, 0 when there is none
IndexOf(s, p) == IndexFrom(s, p, 1)

RECURSIVE LastIndexFrom(_, _, _)
\* 1-based index of the last occurrence of p in s at or before i, else 0
LastIndexFrom(s, p, i) ==
    IF i < 1 THEN 0
    ELSE IF SubSeq(s, i, i + Len(p) - 1) = p THEN i
    ELSE LastIndexFrom(s, p, i - 1)

\* 1-based index of the last occurrence of p in s, 0 when there is none
LastIndexOf(s, p) == LastIndexFrom(s, p, Len(s) - Len(p) + 1)

Includes(s, p) == IndexOf(s, p) # 0

\* s.slice(n): drop the first n characters
Slice(s, n) == IF n >= Len(s) THEN <<>> ELSE SubSeq(s, n + 1, Len(s))

\* s with the occurrence of p at index i (none when i = 0) replaced by r
ReplaceAt(s, p, r, i) ==
    IF i = 0 THEN s
    ELSE SubSeq(s, 1, i - 1) \o r \o Slice(s, i + Len(p) - 1)

\* s.replace(p, r) with a string pattern: the first occurrence only
ReplaceFirst(s, p, r) == ReplaceAt(s, p, r, IndexOf(s, p))

RECURSIVE Split(_, _)
SplitAt(s, c, i) ==
    IF i = 0 THEN <<s>>
    ELSE <<SubSeq(s, 1, i - 1)>> \o Split(Slice(s, i), c)

\* s.split(c) for a one-character separator: always at least one part
Split(s, c) == SplitAt(s, c, IndexOf(s, <<c>>))

RECURSIVE Join(_, _)
\* parts.join(c)
Join(parts, c) ==
    IF Len(parts) = 0 THEN <<>>
    ELSE IF Len(parts) = 1 THEN parts[1]
    ELSE parts[1] \o <<c>> \o Join(Tail(parts), c)

RECURSIVE FirstOfFrom(_, _, _)
FirstOfFrom(s, cs, i) ==
    IF i > Len(s) THEN 0
    ELSE IF s[i] \in cs THEN i
    ELSE FirstOfFrom(s, cs, i + 1)

\* index of the first character of s that lies in the set cs, 0 when none
FirstOf(s, cs) == FirstOfFrom(s, cs, 1)

\* s up to (not including) index i, all of s when i = 0
Before(s, i) == IF i = 0 THEN s ELSE SubSeq(s, 1, i - 1)
\* s from index i on, empty when i = 0
From(s, i) == IF i = 0 THEN <<>> ELSE Slice(s, i - 1)

(***************************************************************************)
(* Literals of the source                                                  *)
(***************************************************************************)
HEAD == <<"H", "E", "A", "D">>
GiteaScheme == <<"g", "i", "t", "e", "a">>
GiteaPrefix == <<"g", "i", "t", "e", "a", ":", "/", "/">>
RefParam == <<"?", "r", "e", "f", "=">>
RefName == <<"r", "e", "f">>

Letters == {"a", "b", "d", "e", "f", "g", "h", "i", "m", "o", "p", "r", "s",
            "t", "u", "v", "x", "A", "D", "E", "H"}
Digits == {"0", "1", "2", "3", "4", "5", "6", "7", "8", "9"}

(***************************************************************************)
(* new URL(uri) of the runtime (WHATWG URL), for the characters the model  *)
(* uses: scheme, "//" authority with optional :port, path with dot-segment *)
(* removal and percent-encoding of the space, query up to "#".  Schemes    *)
(* of the model are lower-case, so the scheme's lower-casing is not        *)
(* modelled; the space is the only character the model's strings hold that *)
(* is percent-encoded.                                                     *)
(***************************************************************************)
SpecialSchemes == {<<"h", "t", "t", "p">>, <<"h", "t", "t", "p", "s">>}

\* characters that may not occur in a host
ForbiddenHost == {" ", "#", "/", ":", "?", "@"}

DigitValue == [c \in Digits |->
    CASE c = "0" -> 0 [] c = "1" -> 1 [] c = "2" -> 2 [] c = "3" -> 3
      [] c = "4" -> 4 [] c = "5" -> 5 [] c = "6" -> 6 [] c = "7" -> 7
      [] c = "8" -> 8 [] c = "9" -> 9]

RECURSIVE DecimalValue(_, _)
\* value of a string of decimal digits, acc the value read so far
DecimalValue(s, acc) ==
    IF s = <<>> THEN acc
    ELSE DecimalValue(Tail(s), acc * 10 + DigitValue[Head(s)])

RECURSIVE EncodePath(_)
\* percent-encode the characters of the path percent-encode set
EncodePath(s) ==
    IF s = <<>> THEN <<>>
    ELSE IF Head(s) = " " THEN <<"%", "2", "0">> \o EncodePath(Tail(s))
    ELSE <<Head(s)>> \o EncodePath(Tail(s))

RECURSIVE DotSegments(_, _)
\* remove "." and ".." segments: segs still to read, acc the output so far
DotSegments(segs, acc) ==
    IF Len(segs) = 0 THEN acc
    ELSE LET seg == Head(segs)
             last == Len(segs) = 1
         IN IF seg = <<".", ".">>
            THEN LET popped == IF Len(acc) = 0 THEN acc
                               ELSE SubSeq(acc, 1, Len(acc) - 1)
                 IN DotSegments(Tail(segs),
                                IF last THEN Append(popped, <<>>) ELSE popped)
            ELSE IF seg = <<".">>
            THEN DotSegments(Tail(segs),
                             IF last THEN Append(acc, <<>>) ELSE acc)
            ELSE DotSegments(Tail(segs), Append(acc, seg))

\* url.pathname of a hierarchical URL from the raw path (empty or "/...")
NormalizePath(raw) ==
    IF raw = <<>> THEN <<>>
    ELSE LET segs == DotSegments(Split(Slice(raw, 1), "/"), <<>>)
         IN <<"/">> \o EncodePath(Join(segs, "/"))

RECURSIVE DecodeForm(_)
\* application/x-www-form-urlencoded decoding: "+" and %20 give a space
DecodeForm(s) ==
    IF s = <<>> THEN <<>>
    ELSE IF Head(s) = "+" THEN <<" ">> \o DecodeForm(Tail(s))
    ELSE IF StartsWith(s, <<"%", "2", "0">>)
         THEN <<" ">> \o DecodeForm(Slice(s, 3))
    ELSE <<Head(s)>> \o DecodeForm(Tail(s))

RECURSIVE EncodeQuery(_)
\* percent-encode the characters of the query percent-encode set
EncodeQuery(s) ==
    IF s = <<>> THEN <<>>
    ELSE IF Head(s) = " " THEN <<"%", "2", "0">> \o EncodeQuery(Tail(s))
    ELSE <<Head(s)>> \o EncodeQuery(Tail(s))

InvalidURL == [ok |-> FALSE]

\* the URL record once scheme, host, port, path and query are separated
UrlRecord(scheme, hier, hostname, port, hasUserOrPort, rawPath, rawQuery) ==
    IF \/ scheme[1] \notin Letters
       \/ \E i \in 1..Len(scheme) :
             scheme[i] \notin Letters \cup Digits \cup {"+", "-", "."}
       \/ \E i \in 1..Len(port) : port[i] \notin Digits
       \/ Len(port) > 5
       \/ DecimalValue(port, 0) > 65535
       \/ hostname = <<>> /\ hasUserOrPort
       \/ \E i \in 1..Len(hostname) : hostname[i] \in ForbiddenHost
       \/ scheme \in SpecialSchemes /\ (~hier \/ hostname = <<>>)
    THEN InvalidURL
    ELSE [ok |-> TRUE,
          protocol |-> scheme \o <<":">>,
          hostname |-> hostname,
          port |-> port,
          pathname |-> IF scheme \in SpecialSchemes /\ rawPath = <<>>
                       THEN <<"/">>
                       ELSE IF hier \/ StartsWith(rawPath, <<"/">>)
                       THEN NormalizePath(rawPath)
                       ELSE rawPath,
          \* url.search is empty when the query is empty
          search |-> IF Len(rawQuery) <= 1 THEN <<>>
                     ELSE EncodeQuery(rawQuery)]

\* afterPath: what follows the path, from its "?" or "#" on
UrlQuery(scheme, hier, hostname, port, hasUserOrPort, rawPath, afterPath) ==
    UrlRecord(scheme, hier, hostname, port, hasUserOrPort, rawPath,
              IF StartsWith(afterPath, <<"?">>)
              THEN Before(afterPath, IndexOf(afterPath, <<"#">>))
              ELSE <<>>)

\* tail: the path and what follows it; qEnd: index of the first "?" or "#"
UrlPath(scheme, hier, hostname, port, hasUserOrPort, tail, qEnd) ==
    UrlQuery(scheme, hier, hostname, port, hasUserOrPort,
             Before(tail, qEnd), From(tail, qEnd))

\* hostport: the authority after its userinfo; pcolon: its last ":"
UrlHostPort(scheme, hostport, pcolon, hasUser, tail) ==
    UrlPath(scheme, TRUE, Before(hostport, pcolon),
            IF pcolon = 0 THEN <<>> ELSE Slice(hostport, pcolon),
            hasUser \/ pcolon # 0, tail, FirstOf(tail, {"?", "#"}))

UrlHost(scheme, hostport, hasUser, tail) ==
    UrlHostPort(scheme, hostport, LastIndexOf(hostport, <<":">>), hasUser, tail)

\* at: index of the last "@" of the authority
UrlUser(scheme, authority, at, tail) ==
    UrlHost(scheme, Slice(authority, at), at # 0, tail)

\* after: what follows "//"; aEnd: index of the first "/", "?" or "#"
UrlAuthority(scheme, after, aEnd) ==
    UrlUser(scheme, Before(after, aEnd),
            LastIndexOf(Before(after, aEnd), <<"@">>), From(after, aEnd))

\* rest: what follows the scheme's ":"
UrlRest(scheme, rest) ==
    IF StartsWith(rest, <<"/", "/">>)
    THEN UrlAuthority(scheme, Slice(rest, 2),
                      FirstOf(Slice(rest, 2), {"/", "?", "#"}))
    ELSE UrlPath(scheme, FALSE, <<>>, <<>>, FALSE, rest,
                 FirstOf(rest, {"?", "#"}))

UrlScheme(uri, colon) ==
    IF colon <= 1 THEN InvalidURL
    ELSE UrlRest(SubSeq(uri, 1, colon - 1), Slice(uri, colon))

ParseURL(uri) == UrlScheme(uri, IndexOf(uri, <<":">>))

\* url.searchParams.get(name): the first pair with that name, or null
NullValue == [has |-> FALSE, value |-> <<>>]

\* the pair p = "name=value" split at its first "=" (at index e)
PairName(p, e) == DecodeForm(Before(p, e))
PairValue(p, e) == DecodeForm(IF e = 0 THEN <<>> ELSE Slice(p, e))

RECURSIVE FirstPair(_, _)
FirstPair(pairs, name) ==
    IF Len(pairs) = 0 THEN NullValue
    ELSE IF /\ Head(pairs) # <<>>
            /\ PairName(Head(pairs), IndexOf(Head(pairs), <<"=">>)) = name
         THEN [has |-> TRUE,
               value |-> PairValue(Head(pairs), IndexOf(Head(pairs), <<"=">>))]
    ELSE FirstPair(Tail(pairs), name)

SearchParamsGet(search, name) ==
    IF search = <<>> THEN NullValue
    ELSE FirstPair(Split(Slice(search, 1), "&"), name)

(***************************************************************************)
(* uriParser.ts                                                            *)
(***************************************************************************)
ParseFailed == [ok |-> FALSE]

\* parts: the path split at "/"; refGot: searchParams.get('ref')
GiteaUriOf(url, parts, refGot) ==
    IF Len(parts) < 2 THEN ParseFailed
    ELSE [ok |-> TRUE,
          server |-> url.hostname,
          owner |-> parts[1],
          repo |-> parts[2],
          path |-> Join(Slice(parts, 2), "/"),
          \* get('ref') || 'HEAD': null and "" are both falsy
          ref |-> IF ~refGot.has \/ refGot.value = <<>>
                  THEN HEAD ELSE refGot.value]

GiteaUriFromUrl(url) ==
    IF ~url.ok THEN ParseFailed
    ELSE IF url.protocol # GiteaScheme \o <<":">> THEN ParseFailed
    ELSE GiteaUriOf(url, Split(Slice(url.pathname, 1), "/"),
                    SearchParamsGet(url.search, RefName))

parseGiteaUri(uri) == GiteaUriFromUrl(ParseURL(uri))

\* createGiteaUri without the test for "HEAD"
createGiteaUri_AlwaysRef(server, owner, repo, path, ref) ==
    LET base == GiteaPrefix \o server \o <<"/">> \o owner \o <<"/">> \o repo
        filePath == IF path # <<>> THEN <<"/">> \o path ELSE <<>>
        refParam == IF ref # <<>> THEN RefParam \o ref ELSE <<>>
    IN base \o filePath \o refParam

createGiteaUri(server, owner, repo, path, ref) ==
    LET base == GiteaPrefix \o server \o <<"/">> \o owner \o <<"/">> \o repo
        filePath == IF path # <<>> THEN <<"/">> \o path ELSE <<>>
        refParam == IF ref # <<>> /\ ref # HEAD THEN RefParam \o ref ELSE <<>>
    IN base \o filePath \o refParam

\* getServerUrl: http for a local server, https otherwise
Localhost == <<"l", "o", "c", "a", "l", "h", "o", "s", "t">>
Loopback == <<"1", "2", "7", ".", "0", ".", "0", ".", "1">>
HttpPrefix == <<"h", "t", "t", "p", ":", "/", "/">>
HttpsPrefix == <<"h", "t", "t", "p", "s", ":", "/", "/">>

getServerUrl(server) ==
    IF Includes(server, Localhost) \/ Includes(server, Loopback)
    THEN HttpPrefix \o server
    ELSE HttpsPrefix \o server

(***************************************************************************)
(* The codec as a state machine: arguments or a raw URI string are chosen, *)
(* createGiteaUri builds, parseGiteaUri parses.                            *)
(***************************************************************************)
Servers == {<<"h">>, <<"g", ".", "e">>, <<"h", ":", "3">>}
Owners == {<<"o">>, <<"u">>}
Repos == {<<"r">>, <<"s">>}
Paths == {<<>>, <<"f">>, <<"d", "/", "f">>}
Refs == {HEAD, <<"m">>, <<"v", "/", "x">>, <<>>}

RawUris == {
    <<"g", "i", "t", "e", "a", ":", "/", "/", "h", "/", "o">>,
    <<"g", "i", "t", "e", "a", ":", "/", "/", "h", "/", "o", "/">>,
    <<"g", "i", "t", "e", "a", ":", "/", "/", "h", "/", "/", "r">>,
    <<"g", "i", "t", "e", "a", ":", "/", "/", "h">>,
    <<"g", "i", "t", "e", "a", ":", "/", "/", "h", "/">>,
    <<"g", "i", "t", "e", "a", ":", "/", "/", "h", "/", "o", "/", "r">>,
    <<"g", "i", "t", "e", "a", ":", "/", "/", "h", "/", "o", "/", "r", "?", "r", "e", "f", "=">>,
    <<"g", "i", "t", "e", "a", ":", "/", "/", "h", "/", "o", "/", "r", "?", "x", "=", "m">>,
    <<"g", "i", "t", "e", "a", ":", "/", "/", "h", "/", "o", "/", "r", "/", "a", " ", "b">>,
    <<"g", "i", "t", "e", "a", ":", "/", "/", "h", "/", "o", "/", ".", ".", "/", "r">>,
    <<"g", "i", "t", "e", "a", ":", "/", "/", "h", ":", "x", "/", "o", "/", "r">>,
    <<"g", "i", "t", "e", "a", ":", "o", "/", "r">>,
    <<"h", "t", "t", "p", ":", "/", "/", "h", "/", "o", "/", "r">>,
    <<"h", "t", "t", "p", "s", ":", "/", "/", "h", "/", "o", "/", "r", "/", "f">>,
    <<"f", "i", "t", ":", "/", "/", "h", "/", "o">>,
    <<"h", "/", "o", "/", "r">>}

NoArgs == [server |-> <<>>, owner |-> <<>>, repo |-> <<>>, path |-> <<>>,
           ref |-> <<>>]
ArgSets == [server : Servers, owner : Owners, repo : Repos, path : Paths,
            ref : Refs]

CodecInit ==
    /\ codecParsed = ParseFailed
    /\ \/ /\ codecPhase = "args"
          /\ codecArgs \in ArgSets
          /\ codecUri = <<>>
       \/ /\ codecPhase = "raw"
          /\ codecArgs = NoArgs
          /\ codecUri \in RawUris

CodecCreate ==
    /\ UNCHANGED NotCodec
    /\ codecPhase = "args"
    /\ codecUri' = createGiteaUri(codecArgs.server, codecArgs.owner,
                                  codecArgs.repo, codecArgs.path, codecArgs.ref)
    /\ codecPhase' = "built"
    /\ UNCHANGED <<codecArgs, codecParsed>>

CodecParse ==
    /\ UNCHANGED NotCodec
    /\ codecPhase \in {"built", "raw"}
    /\ codecParsed' = parseGiteaUri(codecUri)
    /\ codecPhase' = IF codecPhase = "built" THEN "parsedBuilt" ELSE "parsedRaw"
    /\ UNCHANGED <<codecArgs, codecUri>>

CodecChooseArgs ==
    /\ UNCHANGED NotCodec
    /\ codecPhase \in {"parsedBuilt", "parsedRaw"}
    /\ codecArgs' \in ArgSets
    /\ codecUri' = <<>>
    /\ codecParsed' = ParseFailed
    /\ codecPhase' = "args"

CodecChooseRaw ==
    /\ UNCHANGED NotCodec
    /\ codecPhase \in {"parsedBuilt", "parsedRaw"}
    /\ codecArgs' = NoArgs
    /\ codecUri' \in RawUris
    /\ codecParsed' = ParseFailed
    /\ codecPhase' = "raw"

CodecNext ==
    \/ CodecCreate
    \/ CodecParse
    \/ CodecChooseArgs
    \/ CodecChooseRaw

(***************************************************************************)
(* Text conversions of the runtime                                         *)
(***************************************************************************)
RECURSIVE Utf8Decode(_)
\* Buffer.toString('utf-8'): one- and two-byte sequences, U+FFFD for a byte
\* that starts no valid sequence
Utf8Decode(bytes) ==
    IF bytes = <<>> THEN <<>>
    ELSE LET b == Head(bytes)
         IN IF b < 128 THEN <<b>> \o Utf8Decode(Tail(bytes))
            ELSE IF /\ b \in 194..223
                    /\ Len(bytes) >= 2
                    /\ bytes[2] \in 128..191
                 THEN <<(b - 192) * 64 + (bytes[2] - 128)>>
                          \o Utf8Decode(Slice(bytes, 2))
            ELSE <<65533>> \o Utf8Decode(Tail(bytes))

RECURSIVE Utf8Encode(_)
\* TextEncoder.encode: code points to UTF-8 bytes
Utf8Encode(cps) ==
    IF cps = <<>> THEN <<>>
    ELSE LET c == Head(cps)
         IN (IF c < 128 THEN <<c>>
             ELSE IF c < 2048 THEN <<192 + (c \div 64), 128 + (c % 64)>>
             ELSE <<224 + (c \div 4096), 128 + ((c \div 64) % 64),
                    128 + (c % 64)>>)
            \o Utf8Encode(Tail(cps))

(***************************************************************************)
(* giteaFileSystemProvider.ts                                              *)
(***************************************************************************)
FsServers == {<<"h">>, <<"g">>}

UriFile == <<"g", "i", "t", "e", "a", ":", "/", "/", "h", "/", "o", "/", "r", "/", "f">>
UriDir == <<"g", "i", "t", "e", "a", ":", "/", "/", "g", "/", "o", "/", "r", "/", "d", "?", "r", "e", "f", "=", "m">>
UriBad == <<"g", "i", "t", "e", "a", ":", "/", "/", "h", "/", "o">>
FsUris == {UriFile, UriDir, UriBad}

\* parseGiteaUri(uri.toString()) for the uris of the model
FsParsed == [u \in FsUris |-> parseGiteaUri(u)]

Address(p) == [server |-> p.server, owner |-> p.owner, repo |-> p.repo,
               path |-> p.path, ref |-> p.ref]
Addresses == {Address(FsParsed[u]) : u \in {v \in FsUris : FsParsed[v].ok}}

\* what the contents endpoint answers for an address: a file object with its
\* content (the bytes its base64 text carries), a directory listing, or 404
Missing == [kind |-> "missing"]
FileOf(bytes) == [kind |-> "file", bytes |-> bytes]
DirOf(entries) == [kind |-> "dir", entries |-> entries]
RemoteValues == {Missing,
                 FileOf(<<97>>), FileOf(<<195, 169, 255>>), FileOf(<<>>),
                 DirOf(<<[name |-> <<"f">>, type |-> "file"],
                         [name |-> <<"d">>, type |-> "dir"]>>)}

NoBytes == <<>>
Idle == [op |-> "none", uri |-> <<>>, err |-> "none", result |-> NoBytes,
         fetches |-> 0, requests |-> 0, seenBefore |-> FALSE]

Call(op, uri, err, result, fetches, requests, seen) ==
    [op |-> op, uri |-> uri, err |-> err, result |-> result,
     fetches |-> fetches, requests |-> requests, seenBefore |-> seen]

FsInit ==
    /\ fsCache = <<>>
    /\ fsClients = {}
    /\ fsLast = Idle
    /\ fsFirst = <<>>
    /\ authTokens \in SUBSET FsServers
    /\ remote \in [Addresses -> {Missing, FileOf(<<97>>)}]

\* getClient(server): the memoized client, or a new one when a token exists
CanGetClient(server) == server \in fsClients \/ server \in authTokens

\* client.getFileContent: the decoded text, when the answer is a file object
\* with non-empty content
HasContent(addr) ==
    /\ addr \in DOMAIN remote
    /\ remote[addr].kind = "file"
    /\ remote[addr].bytes # <<>>

\* the function f with key k set to v
Put(f, k, v) == [x \in DOMAIN f \cup {k} |-> IF x = k THEN v ELSE f[x]]
\* the function f without the keys in ks
Without(f, ks) == [x \in DOMAIN f \ ks |-> f[x]]

\* readFile answering from the network on every call
FsReadFile_NoCache(uri) ==
    /\ UNCHANGED NotFs
    /\ LET parsed == FsParsed[uri]
           addr == Address(parsed)
           seen == uri \in DOMAIN fsFirst
       IN /\ parsed.ok /\ CanGetClient(parsed.server) /\ HasContent(addr)
          /\ LET out == Utf8Encode(Utf8Decode(remote[addr].bytes))
             IN /\ fsCache' = Put(fsCache, uri, out)
                /\ fsFirst' = IF seen THEN fsFirst ELSE Put(fsFirst, uri, out)
                /\ fsLast' = Call("readFile", uri, "none", out, 1, 1, seen)
          /\ fsClients' = fsClients \cup {parsed.server}
          /\ UNCHANGED <<authTokens, remote>>

FsReadFile(uri) ==
    /\ UNCHANGED NotFs
    /\ LET parsed == FsParsed[uri]
           addr == Address(parsed)
           seen == uri \in DOMAIN fsFirst
       IN IF uri \in DOMAIN fsCache
          THEN \* cache hit
               /\ fsLast' = Call("readFile", uri, "none", fsCache[uri], 0, 0, seen)
               /\ UNCHANGED <<fsCache, fsClients, fsFirst, authTokens, remote>>
          ELSE IF ~parsed.ok \/ ~CanGetClient(parsed.server)
          THEN \* parseGiteaUri or getClient threw
               /\ fsLast' = Call("readFile", uri, "Error", NoBytes, 0, 0, seen)
               /\ UNCHANGED <<fsCache, fsClients, fsFirst, authTokens, remote>>
          ELSE /\ fsClients' = fsClients \cup {parsed.server}
               /\ UNCHANGED <<authTokens, remote>>
               /\ \E netOk \in BOOLEAN :
                    IF netOk /\ HasContent(addr)
                    THEN LET out == Utf8Encode(Utf8Decode(remote[addr].bytes))
                         IN /\ fsCache' = Put(fsCache, uri, out)
                            /\ fsFirst' = IF seen THEN fsFirst
                                          ELSE Put(fsFirst, uri, out)
                            /\ fsLast' = Call("readFile", uri, "none", out, 1, 1,
                                              seen)
                    ELSE \* request failed, or 'File content not found'
                         /\ fsLast' = Call("readFile", uri, "Error", NoBytes, 1, 1,
                                           seen)
                         /\ UNCHANGED <<fsCache, fsFirst>>

\* writeFile, delete, rename, createDirectory: always NoPermissions
WriteOps == {"writeFile", "delete", "rename", "createDirectory"}

\* a rejected write that also drops the cached content of its uri
FsReject_Invalidate(op, uri) ==
    /\ UNCHANGED NotFs
    /\ fsLast' = Call(op, uri, "NoPermissions", NoBytes, 0, 0, FALSE)
    /\ fsCache' = Without(fsCache, {uri})
    /\ UNCHANGED <<fsClients, fsFirst, authTokens, remote>>

FsReject(op, uri) ==
    /\ UNCHANGED NotFs
    /\ fsLast' = Call(op, uri, "NoPermissions", NoBytes, 0, 0, FALSE)
    /\ UNCHANGED <<fsCache, fsClients, fsFirst, authTokens, remote>>

FsWriteFile(uri) == FsReject("writeFile", uri)
FsDelete(uri) == FsReject("delete", uri)
FsRename(uri) == FsReject("rename", uri)
FsCreateDirectory(uri) == FsReject("createDirectory", uri)

\* stat that keeps the content it fetched in the cache
FsStat_Caching(uri) ==
    /\ UNCHANGED NotFs
    /\ LET parsed == FsParsed[uri]
           addr == Address(parsed)
       IN /\ parsed.ok /\ CanGetClient(parsed.server) /\ HasContent(addr)
          /\ fsClients' = fsClients \cup {parsed.server}
          /\ fsCache' = Put(fsCache, uri,
                            Utf8Encode(Utf8Decode(remote[addr].bytes)))
          /\ fsLast' = Call("stat", uri, "none",
                            Utf8Encode(Utf8Decode(remote[addr].bytes)),
                            1, 1, FALSE)
          /\ UNCHANGED <<fsFirst, authTokens, remote>>

FsStat(uri) ==
    /\ UNCHANGED NotFs
    /\ LET parsed == FsParsed[uri]
           addr == Address(parsed)
       IN IF ~parsed.ok \/ ~CanGetClient(parsed.server)
          THEN /\ fsLast' = Call("stat", uri, "FileNotFound", NoBytes, 0, 0, FALSE)
               /\ UNCHANGED <<fsCache, fsClients, fsFirst, authTokens, remote>>
          ELSE /\ fsClients' = fsClients \cup {parsed.server}
               /\ UNCHANGED <<fsCache, fsFirst, authTokens, remote>>
               /\ \E netOk \in BOOLEAN :
                    IF netOk /\ HasContent(addr)
                    THEN fsLast' = Call("stat", uri, "none",
                                        Utf8Encode(Utf8Decode(remote[addr].bytes)),
                                        1, 1, FALSE)
                    ELSE fsLast' = Call("stat", uri, "FileNotFound", NoBytes, 1, 1,
                                        FALSE)

FsReadDirectory(uri) ==
    /\ UNCHANGED NotFs
    /\ LET parsed == FsParsed[uri]
           addr == Address(parsed)
       IN IF ~parsed.ok \/ ~CanGetClient(parsed.server)
          THEN /\ fsLast' = Call("readDirectory", uri, "FileNotFound", NoBytes,
                                 0, 0, FALSE)
               /\ UNCHANGED <<fsCache, fsClients, fsFirst, authTokens, remote>>
          ELSE /\ fsClients' = fsClients \cup {parsed.server}
               /\ UNCHANGED <<fsCache, fsFirst, authTokens, remote>>
               /\ \E netOk \in BOOLEAN :
                    \* a file object has no map(): that throws as well
                    IF netOk /\ addr \in DOMAIN remote /\ remote[addr].kind = "dir"
                    THEN fsLast' = Call("readDirectory", uri, "none",
                                        remote[addr].entries, 0, 1, FALSE)
                    ELSE fsLast' = Call("readDirectory", uri, "FileNotFound",
                                        NoBytes, 0, 1, FALSE)

FsWatch(uri) ==
    /\ UNCHANGED NotFs
    /\ fsLast' = Call("watch", uri, "none", NoBytes, 0, 0, FALSE)
    /\ UNCHANGED <<fsCache, fsClients, fsFirst, authTokens, remote>>

FsClearCache ==
    /\ UNCHANGED NotFs
    /\ fsCache' = <<>>
    /\ fsFirst' = <<>>
    /\ fsLast' = Call("clearCache", <<>>, "none", NoBytes, 0, 0, FALSE)
    /\ UNCHANGED <<fsClients, authTokens, remote>>

\* clearServerCache(server): every key that contains the server string
FsClearServerCache(server) ==
    /\ UNCHANGED NotFs
    /\ LET keysToDelete == {k \in DOMAIN fsCache : Includes(k, server)}
       IN /\ fsCache' = Without(fsCache, keysToDelete)
          /\ fsFirst' = Without(fsFirst, keysToDelete)
          /\ fsLast' = Call("clearServerCache", server, "none", NoBytes, 0, 0,
                            FALSE)
          /\ UNCHANGED <<fsClients, authTokens, remote>>

\* the forge's content changes (a push by anyone)
RemoteChange(addr, value) ==
    /\ UNCHANGED NotFs
    /\ remote[addr] # value
    /\ remote' = [remote EXCEPT ![addr] = value]
    /\ UNCHANGED <<fsCache, fsClients, fsLast, fsFirst, authTokens>>

\* AuthManager.setToken / deleteToken as seen by the provider
AuthSetToken(server) ==
    /\ UNCHANGED NotFs
    /\ server \notin authTokens
    /\ authTokens' = authTokens \cup {server}
    /\ UNCHANGED <<fsCache, fsClients, fsLast, fsFirst, remote>>

AuthDeleteToken(server) ==
    /\ UNCHANGED NotFs
    /\ server \in authTokens
    /\ authTokens' = authTokens \ {server}
    /\ UNCHANGED <<fsCache, fsClients, fsLast, fsFirst, remote>>

FsNext ==
    \/ \E u \in FsUris : FsReadFile(u)
    \/ \E u \in FsUris : FsWriteFile(u)
    \/ \E u \in FsUris : FsDelete(u)
    \/ \E u \in FsUris : FsRename(u)
    \/ \E u \in FsUris : FsCreateDirectory(u)
    \/ \E u \in FsUris : FsStat(u)
    \/ \E u \in FsUris : FsReadDirectory(u)
    \/ \E u \in FsUris : FsWatch(u)
    \/ FsClearCache
    \/ \E s \in FsServers \cup {<<>>} : FsClearServerCache(s)
    \/ \E a \in Addresses, v \in RemoteValues : RemoteChange(a, v)
    \/ \E s \in FsServers : AuthSetToken(s)
    \/ \E s \in FsServers : AuthDeleteToken(s)

(***************************************************************************)
(* GiteaClient: constructor, protocol detection, request                   *)
(***************************************************************************)
ApiV1 == <<"/", "a", "p", "i", "/", "v", "1">>
VersionPath == <<"/", "a", "p", "i", "/", "v", "1", "/", "v", "e", "r", "s", "i", "o", "n">>

\* constructor with an explicit base URL (or the configured host)
ClientBaseUrl(baseUrl) ==
    IF EndsWith(baseUrl, ApiV1) THEN baseUrl ELSE baseUrl \o ApiV1

WithScheme(baseUrl) ==
    IF ~StartsWith(baseUrl, HttpPrefix) /\ ~StartsWith(baseUrl, HttpsPrefix)
    THEN HttpsPrefix \o baseUrl
    ELSE baseUrl

ClientConstruct(baseUrl) == ClientBaseUrl(WithScheme(baseUrl))

\* the error substrings that warrant the HTTP fallback
sslErrors == {<<"W", "R", "O", "N", "G", "_", "V", "E", "R", "S", "I", "O", "N", "_", "N", "U", "M", "B", "E", "R">>,
              <<"E", "P", "R", "O", "T", "O">>,
              <<"E", "C", "O", "N", "N", "R", "E", "S", "E", "T">>,
              <<"C", "E", "R", "T">>,
              <<"S", "E", "L", "F", "_", "S", "I", "G", "N", "E", "D">>,
              <<"U", "N", "A", "B", "L", "E", "_", "T", "O", "_", "V", "E", "R", "I", "F", "Y", "_", "L", "E", "A", "F", "_", "S", "I", "G", "N", "A", "T", "U", "R", "E">>}

IsSslError(msg) == \E e \in sslErrors : Includes(msg, e)

\* what a fetch can do: a 2xx response, another response, or an error with
\* its message
Ok == [kind |-> "ok"]
NotOk == [kind |-> "notOk"]
Threw(msg) == [kind |-> "error", message |-> msg]

ErrorMessages == {<<"w", "r", "i", "t", "e", " ", "E", "P", "R", "O", "T", "O">>,
                  <<"C", "E", "R", "T", "_", "H", "A", "S", "_", "E", "X", "P", "I", "R", "E", "D">>,
                  <<"E", "C", "O", "N", "N", "R", "E", "F", "U", "S", "E", "D">>}
FetchOutcomes == {Ok, NotOk} \cup {Threw(m) : m \in ErrorMessages}

\* testUrl.replace(/^https?:\/\//, '')
StripScheme(url) ==
    IF StartsWith(url, HttpsPrefix) THEN Slice(url, Len(HttpsPrefix))
    ELSE IF StartsWith(url, HttpPrefix) THEN Slice(url, Len(HttpPrefix))
    ELSE url

TestUrl(baseUrl) ==
    IF EndsWith(baseUrl, ApiV1) THEN ReplaceFirst(baseUrl, ApiV1, <<>>)
    ELSE baseUrl

HttpProbeUrl(testUrl) == HttpPrefix \o StripScheme(testUrl) \o VersionPath

Probe(kind, url, outcome) == [kind |-> kind, url |-> url, outcome |-> outcome]

\* detectProtocol falling back to HTTP after any error of the HTTPS probe
DetectFrom_AnyError(testUrl, first, second) ==
    IF first.kind = "error"
    THEN [probes |-> <<Probe("https", testUrl \o VersionPath, first),
                       Probe("http", HttpProbeUrl(testUrl), second)>>,
          threw |-> second.kind = "error",
          url |-> IF second.kind = "ok"
                  THEN ReplaceFirst(HttpProbeUrl(testUrl), VersionPath, <<>>)
                  ELSE testUrl]
    ELSE [probes |-> <<Probe("https", testUrl \o VersionPath, first)>>,
          threw |-> FALSE,
          url |-> testUrl]

\* detectProtocol once testUrl is known: first is what the HTTPS probe does,
\* second what the HTTP probe does when it is sent
DetectFrom(testUrl, first, second) ==
    IF first.kind = "error" /\ IsSslError(first.message)
    THEN [probes |-> <<Probe("https", testUrl \o VersionPath, first),
                       Probe("http", HttpProbeUrl(testUrl), second)>>,
          \* HTTP also failed: the HTTPS error is thrown
          threw |-> second.kind = "error",
          url |-> IF second.kind = "ok"
                  THEN ReplaceFirst(HttpProbeUrl(testUrl), VersionPath, <<>>)
                  ELSE testUrl]
    ELSE [probes |-> <<Probe("https", testUrl \o VersionPath, first)>>,
          threw |-> FALSE,
          url |-> testUrl]

detectProtocol(baseUrl, first, second) ==
    DetectFrom(TestUrl(baseUrl), first, second)

\* initializeConnection that leaves protocolDetected unset after a failure
Initialized_Retry(baseUrl, d) ==
    [baseUrl |-> IF d.threw THEN baseUrl ELSE ClientBaseUrl(d.url),
     detected |-> ~d.threw,
     probes |-> d.probes]

\* initializeConnection, given what detectProtocol did
Initialized(baseUrl, d) ==
    [baseUrl |-> IF d.threw THEN baseUrl ELSE ClientBaseUrl(d.url),
     detected |-> TRUE,
     probes |-> d.probes]

initializeConnection(baseUrl, first, second) ==
    Initialized(baseUrl, detectProtocol(baseUrl, first, second))

ClientInputs == {<<"h">>, <<"h", "t", "t", "p", "s", ":", "/", "/", "h">>, <<"h", "t", "t", "p", ":", "/", "/", "h">>, <<"h", "t", "t", "p", "s", ":", "/", "/", "h", "/", "a", "p", "i", "/", "v", "1">>,
                 getServerUrl(<<"l", "o", "c", "a", "l", "h", "o", "s", "t", ":", "3">>)}
Endpoints == {<<"/", "u", "s", "e", "r">>, <<"/", "r", "e", "p", "o", "s", "/", "o", "/", "r">>}
MaxRequests == 3

NoRequest == [url |-> <<>>, outcome |-> Ok]

ClientInit ==
    /\ \E b \in ClientInputs :
          /\ clBaseUrl = ClientConstruct(b)
          /\ clCtorUrl = ClientConstruct(b)
    /\ clDetected = FALSE
    /\ clProbes = <<>>
    /\ clDetections = 0
    /\ clRequests = 0
    /\ clLast = NoRequest

\* the fetch of request(): url is the base URL with the endpoint appended
Send(baseUrl, endpoint, outcome) ==
    /\ clRequests' = clRequests + 1
    /\ clLast' = [url |-> baseUrl \o endpoint, outcome |-> outcome]

\* request() on a client whose protocol is not detected yet
ClientFirstRequest(endpoint, first, second, outcome) ==
    /\ UNCHANGED NotClient
    /\ ~clDetected
    /\ clRequests < MaxRequests
    /\ LET init == initializeConnection(clBaseUrl, first, second)
       IN /\ clBaseUrl' = init.baseUrl
          /\ clDetected' = init.detected
          /\ clProbes' = init.probes
          /\ clDetections' = clDetections + 1
          /\ Send(init.baseUrl, endpoint, outcome)
    /\ UNCHANGED clCtorUrl

\* request() once protocolDetected is set
ClientRequest(endpoint, outcome) ==
    /\ UNCHANGED NotClient
    /\ clDetected
    /\ clRequests < MaxRequests
    /\ Send(clBaseUrl, endpoint, outcome)
    /\ UNCHANGED <<clBaseUrl, clCtorUrl, clDetected, clProbes, clDetections>>

ClientNext ==
    \/ \E e \in Endpoints, f \in FetchOutcomes, g \in FetchOutcomes,
          o \in FetchOutcomes : ClientFirstRequest(e, f, g, o)
    \/ \E e \in Endpoints, o \in FetchOutcomes : ClientRequest(e, o)

(***************************************************************************)
(* LocalRepoManager.getSyncStatus over a working copy                      *)
(***************************************************************************)
MaxCommits == 2
Commits == 1..MaxCommits

WcPaths == <<<<"a">>, <<"b">>>>
Clean == <<>>
Untracked == <<"?", "?">>
Modified == <<" ", "M">>
Staged == <<"A", " ">>
StatusCodes == {Clean, Untracked, Modified, Staged}

RECURSIVE StatusLines(_, _)
\* output of git status --porcelain: one "XY path" line per file that is
\* not clean, each ended by a newline
StatusLines(files, i) ==
    IF i > Len(WcPaths) THEN <<>>
    ELSE (IF files[i] = Clean THEN <<>>
          ELSE files[i] \o <<" ">> \o WcPaths[i] \o <<"\n">>)
         \o StatusLines(files, i + 1)

GitStatus(files) == StatusLines(files, 1)

DigitChars == <<"0", "1", "2", "3", "4", "5", "6", "7", "8", "9">>

RECURSIVE ToDecimal(_)
ToDecimal(n) ==
    IF n < 10 THEN <<DigitChars[n + 1]>>
    ELSE ToDecimal(n \div 10) \o <<DigitChars[(n % 10) + 1]>>

\* output of git rev-list --left-only --count left...right: the number of
\* commits reachable from left and not from right
RevListLeftOnly(left, right) ==
    ToDecimal(Cardinality(left \ right)) \o <<"\n">>

\* output of git rev-list --right-only --count left...right
RevListRightOnly(left, right) ==
    ToDecimal(Cardinality(right \ left)) \o <<"\n">>

Whitespace == {" ", "\n"}

RECURSIVE TrimStart(_)
TrimStart(s) ==
    IF s # <<>> /\ Head(s) \in Whitespace THEN TrimStart(Tail(s)) ELSE s

RECURSIVE TrimEnd(_)
TrimEnd(s) ==
    IF s # <<>> /\ s[Len(s)] \in Whitespace
    THEN TrimEnd(SubSeq(s, 1, Len(s) - 1))
    ELSE s

Trim(s) == TrimEnd(TrimStart(s))

RECURSIVE LeadingDigits(_)
LeadingDigits(s) ==
    IF s # <<>> /\ Head(s) \in Digits
    THEN <<Head(s)>> \o LeadingDigits(Tail(s))
    ELSE <<>>

\* parseInt(s, 10) || 0 for a string without sign: NaN and 0 both give 0
ParseIntOr0(s) == DecimalValue(LeadingDigits(TrimStart(s)), 0)

RECURSIVE Substring3(_)
\* lines.map(line => line.substring(3))
Substring3(lines) ==
    IF lines = <<>> THEN <<>>
    ELSE <<Slice(Head(lines), 3)>> \o Substring3(Tail(lines))

IsUntrackedLine(line) == StartsWith(line, Untracked)

UntrackedOf(statusOutput) ==
    Substring3(SelectSeq(Split(statusOutput, "\n"), IsUntrackedLine))

IsDirty(statusOutput, untracked) ==
    /\ Len(statusOutput) > 0
    /\ ~(\A i \in 1..Len(untracked) : Len(untracked[i]) = 0)

SyncStatus(dirty, ahead, behind, untracked, commands, errors) ==
    [called |-> TRUE, isDirty |-> dirty, ahead |-> ahead, behind |-> behind,
     untracked |-> untracked, commands |-> commands, errors |-> errors]

NoStatus == SyncStatus(FALSE, 0, 0, <<>>, <<>>, 0)
NoCall == [NoStatus EXCEPT !.called = FALSE]

\* the call once git status has answered
StatusRead(statusOutput, untracked, tracking, local, upstream) ==
    IF tracking
    THEN SyncStatus(IsDirty(statusOutput, untracked),
                    ParseIntOr0(Trim(RevListLeftOnly(upstream, local))),
                    ParseIntOr0(Trim(RevListRightOnly(upstream, local))),
                    untracked,
                    <<"status", "rev-list --left-only",
                      "rev-list --right-only">>,
                    0)
    \* no upstream: the first rev-list fails and both counts stay 0
    ELSE SyncStatus(IsDirty(statusOutput, untracked), 0, 0, untracked,
                    <<"status", "rev-list --left-only">>, 0)

\* the call past the .git check; git status fails where git cannot work
WithGit(gitWorks, files, tracking, local, upstream) ==
    IF ~gitWorks
    THEN [NoStatus EXCEPT !.commands = <<"status">>, !.errors = 1]
    ELSE StatusRead(GitStatus(files), UntrackedOf(GitStatus(files)),
                    tracking, local, upstream)

\* getSyncStatus that runs git status whether or not .git exists
getSyncStatus_NoGitCheck(hasGit, gitWorks, files, tracking, local, upstream) ==
    WithGit(hasGit /\ gitWorks, files, tracking, local, upstream)

getSyncStatus(hasGit, gitWorks, files, tracking, local, upstream) ==
    IF ~hasGit THEN NoStatus
    ELSE WithGit(gitWorks, files, tracking, local, upstream)

SyncInit ==
    /\ wcHasGit = FALSE
    /\ wcFiles = [i \in 1..Len(WcPaths) |-> Clean]
    /\ wcTracking = FALSE
    /\ wcLocal = {}
    /\ wcUpstream = {}
    /\ syncLast = NoCall

GetSyncStatus(gitWorks) ==
    /\ UNCHANGED NotSync
    /\ syncLast' = getSyncStatus(wcHasGit, gitWorks, wcFiles, wcTracking,
                                 wcLocal, wcUpstream)
    /\ UNCHANGED <<wcHasGit, wcFiles, wcTracking, wcLocal, wcUpstream, pushLast>>

\* what showInputBox resolves to: undefined when dismissed, else the text
Dismissed == [given |-> FALSE, text |-> <<>>]
Entered(text) == [given |-> TRUE, text |-> text]

Unread == <<"-">>

\* a finished run: the steps it took, the status output it read, what it
\* showed, and the working copy it left
PushRun(commands, status, info, errors, files, local, upstream) ==
    [commands |-> commands, status |-> status, info |-> info,
     errors |-> errors, files |-> files, local |-> local,
     upstream |-> upstream]

NoPush ==
    [called |-> FALSE, afterSync |-> FALSE, before |-> <<>>,
     localBefore |-> {}, fail |-> "none", answer |-> Dismissed,
     run |-> PushRun(<<>>, Unread, "none", 0, <<>>, {}, {})]

\* a status or a run read before a change is no longer the current one
Stale == syncLast' = NoCall /\ pushLast' = NoPush

\* the working copy changes under the user's hands
WcGitInit ==
    /\ UNCHANGED NotSync
    /\ ~wcHasGit
    /\ wcHasGit' = TRUE
    /\ Stale
    /\ UNCHANGED <<wcFiles, wcTracking, wcLocal, wcUpstream>>

WcEdit(i, code) ==
    /\ UNCHANGED NotSync
    /\ wcFiles[i] # code
    /\ wcFiles' = [wcFiles EXCEPT ![i] = code]
    /\ Stale
    /\ UNCHANGED <<wcHasGit, wcTracking, wcLocal, wcUpstream>>

WcCommit(c) ==
    /\ UNCHANGED NotSync
    /\ wcHasGit
    /\ c \notin wcLocal
    /\ wcLocal' = wcLocal \cup {c}
    /\ Stale
    /\ UNCHANGED <<wcHasGit, wcFiles, wcTracking, wcUpstream>>

WcSetUpstream ==
    /\ UNCHANGED NotSync
    /\ wcHasGit
    /\ ~wcTracking
    /\ wcTracking' = TRUE
    /\ Stale
    /\ UNCHANGED <<wcHasGit, wcFiles, wcLocal, wcUpstream>>

\* a fetch brings a commit of the forge under the upstream ref
WcFetch(c) ==
    /\ UNCHANGED NotSync
    /\ wcTracking
    /\ c \notin wcUpstream
    /\ wcUpstream' = wcUpstream \cup {c}
    /\ Stale
    /\ UNCHANGED <<wcHasGit, wcFiles, wcTracking, wcLocal>>

SyncNext ==
    \/ \E w \in BOOLEAN : GetSyncStatus(w)
    \/ WcGitInit
    \/ \E i \in 1..Len(WcPaths), code \in StatusCodes : WcEdit(i, code)
    \/ \E c \in Commits : WcCommit(c)
    \/ WcSetUpstream
    \/ \E c \in Commits : WcFetch(c)

(***************************************************************************)
(* LocalRepoManager.syncToGitea over a working copy                        *)
(***************************************************************************)
StagedModified == <<"M", " ">>

\* git add -A: every change of the working copy goes to the index
StageAll(files) ==
    [i \in DOMAIN files |->
        IF files[i] = Untracked THEN Staged
        ELSE IF files[i] = Modified THEN StagedModified
        ELSE files[i]]

\* git commit: the index becomes the new HEAD commit
AllClean(files) == [i \in DOMAIN files |-> Clean]

\* the commit git commit creates: one that exists nowhere yet
NewCommit(local, upstream) ==
    CHOOSE c \in Commits \ (local \cup upstream) :
        \A d \in Commits \ (local \cup upstream) : c <= d

Answers == {Dismissed, Entered(<<>>), Entered(<<"s", "y", "n", "c">>)}

\* !message
NoMessage(answer) == ~answer.given \/ Len(answer.text) = 0

\* the git command that fails in a run, if any
GitFailures == {"none", "add", "status", "commit", "push"}

\* git push origin <branch>: rejected unless it fast-forwards the remote
PushStep(fail, files, local, upstream) ==
    IF fail = "push" \/ ~(upstream \subseteq local)
    THEN PushRun(<<"add", "status", "prompt", "commit", "push">>,
                 GitStatus(StageAll(files)), "none", 1,
                 AllClean(files), local, upstream)
    ELSE PushRun(<<"add", "status", "prompt", "commit", "push">>,
                 GitStatus(StageAll(files)), "synced", 0,
                 AllClean(files), local, local)

CommitStep(fail, files, local, upstream) ==
    IF fail = "commit"
    THEN PushRun(<<"add", "status", "prompt", "commit">>,
                 GitStatus(StageAll(files)), "none", 1,
                 StageAll(files), local, upstream)
    ELSE PushStep(fail, files, local \cup {NewCommit(local, upstream)}, upstream)

\* syncToGitea that unstages the changes when the prompt is dismissed
PromptStep_Unstage(fail, answer, files, local, upstream) ==
    IF NoMessage(answer)
    THEN PushRun(<<"add", "status", "prompt", "reset">>,
                 GitStatus(StageAll(files)), "none", 0,
                 files, local, upstream)
    ELSE CommitStep(fail, files, local, upstream)

PromptStep(fail, answer, files, local, upstream) ==
    IF NoMessage(answer)
    THEN PushRun(<<"add", "status", "prompt">>,
                 GitStatus(StageAll(files)), "none", 0,
                 StageAll(files), local, upstream)
    ELSE CommitStep(fail, files, local, upstream)

\* syncToGitea that goes on to the prompt whatever the status output is
StatusStep_NoCheck(fail, answer, files, local, upstream) ==
    IF fail = "status"
    THEN PushRun(<<"add", "status">>, Unread, "none", 1,
                 StageAll(files), local, upstream)
    ELSE IF Len(Trim(GitStatus(StageAll(files)))) = 0
    THEN CommitStep("commit", files, local, upstream)
    ELSE PromptStep(fail, answer, files, local, upstream)

StatusStep(fail, answer, files, local, upstream) ==
    IF fail = "status"
    THEN PushRun(<<"add", "status">>, Unread, "none", 1,
                 StageAll(files), local, upstream)
    ELSE IF Len(Trim(GitStatus(StageAll(files)))) = 0
    THEN PushRun(<<"add", "status">>, GitStatus(StageAll(files)),
                 "noChanges", 0, StageAll(files), local, upstream)
    ELSE PromptStep(fail, answer, files, local, upstream)

syncToGitea(fail, answer, files, local, upstream) ==
    IF fail = "add"
    THEN PushRun(<<"add">>, Unread, "none", 1, files, local, upstream)
    ELSE StatusStep(fail, answer, files, local, upstream)

\* the previous step of the working copy was a run that committed and pushed
DirectlyAfterSync == pushLast.called /\ pushLast.run.info = "synced"

Ran(fail, answer, run) ==
    /\ pushLast' = [called |-> TRUE, afterSync |-> DirectlyAfterSync,
                    before |-> wcFiles, localBefore |-> wcLocal,
                    fail |-> fail, answer |-> answer, run |-> run]
    /\ wcFiles' = run.files
    /\ wcLocal' = run.local
    /\ wcUpstream' = run.upstream

\* git fails at once in a directory that is no repository
GitFails(fail) == IF wcHasGit THEN fail ELSE "add"

SyncToGitea(fail, answer) ==
    /\ UNCHANGED NotPush
    /\ Commits \ (wcLocal \cup wcUpstream) # {}
    /\ Ran(GitFails(fail), answer,
           syncToGitea(GitFails(fail), answer, wcFiles, wcLocal, wcUpstream))
    /\ syncLast' = NoCall
    /\ UNCHANGED <<wcHasGit, wcTracking>>

PushNext ==
    \/ \E fail \in GitFailures, answer \in Answers : SyncToGitea(fail, answer)
    \/ WcGitInit
    \/ \E i \in 1..Len(WcPaths), code \in StatusCodes : WcEdit(i, code)
    \/ \E c \in Commits : WcCommit(c)
    \/ WcSetUpstream
    \/ \E c \in Commits : WcFetch(c)

(***************************************************************************)
(* GiteaClient: the operations built on request()                          *)
(***************************************************************************)
\* each operation with the endpoint it requests (owner o, repo r, number 1,
\* path f or d, ref m, query q) and what it does with the answer
ApiTable ==
    "getPullRequests" :> [endpoint |-> <<"/", "r", "e", "p", "o", "s", "/", "o", "/", "r", "/", "p", "u", "l", "l", "s", "?", "s", "t", "a", "t", "e", "=", "o", "p", "e", "n">>,
        then |-> "plain"] @@
    "getPullRequest" :> [endpoint |-> <<"/", "r", "e", "p", "o", "s", "/", "o", "/", "r", "/", "p", "u", "l", "l", "s", "/", "1">>,
        then |-> "plain"] @@
    "getPullRequestFiles" :> [endpoint |-> <<"/", "r", "e", "p", "o", "s", "/", "o", "/", "r", "/", "p", "u", "l", "l", "s", "/", "1", "/", "f", "i", "l", "e", "s">>,
        then |-> "plain"] @@
    "getPullRequestComments" :> [endpoint |-> <<"/", "r", "e", "p", "o", "s", "/", "o", "/", "r", "/", "p", "u", "l", "l", "s", "/", "1", "/", "c", "o", "m", "m", "e", "n", "t", "s">>,
        then |-> "plain"] @@
    "mergePullRequest" :> [endpoint |-> <<"/", "r", "e", "p", "o", "s", "/", "o", "/", "r", "/", "p", "u", "l", "l", "s", "/", "1", "/", "m", "e", "r", "g", "e">>,
        then |-> "plain"] @@
    "closePullRequest" :> [endpoint |-> <<"/", "r", "e", "p", "o", "s", "/", "o", "/", "r", "/", "p", "u", "l", "l", "s", "/", "1">>,
        then |-> "plain"] @@
    "getRepository" :> [endpoint |-> <<"/", "r", "e", "p", "o", "s", "/", "o", "/", "r">>,
        then |-> "plain"] @@
    "getCurrentUser" :> [endpoint |-> <<"/", "u", "s", "e", "r">>,
        then |-> "plain"] @@
    "getFileContent" :> [endpoint |-> <<"/", "r", "e", "p", "o", "s", "/", "o", "/", "r", "/", "c", "o", "n", "t", "e", "n", "t", "s", "/", "f", "?", "r", "e", "f", "=", "m">>,
        then |-> "content"] @@
    "listDirectoryContents" :> [endpoint |-> <<"/", "r", "e", "p", "o", "s", "/", "o", "/", "r", "/", "c", "o", "n", "t", "e", "n", "t", "s", "/", "d", "?", "r", "e", "f", "=", "m">>,
        then |-> "plain"] @@
    "getBranches" :> [endpoint |-> <<"/", "r", "e", "p", "o", "s", "/", "o", "/", "r", "/", "b", "r", "a", "n", "c", "h", "e", "s">>,
        then |-> "plain"] @@
    "getIssues" :> [endpoint |-> <<"/", "r", "e", "p", "o", "s", "/", "o", "/", "r", "/", "i", "s", "s", "u", "e", "s", "?", "s", "t", "a", "t", "e", "=", "o", "p", "e", "n">>,
        then |-> "plain"] @@
    "getIssue" :> [endpoint |-> <<"/", "r", "e", "p", "o", "s", "/", "o", "/", "r", "/", "i", "s", "s", "u", "e", "s", "/", "1">>,
        then |-> "plain"] @@
    "createBranch" :> [endpoint |-> <<"/", "r", "e", "p", "o", "s", "/", "o", "/", "r", "/", "b", "r", "a", "n", "c", "h", "e", "s">>,
        then |-> "plain"] @@
    "getRepositoryDetail" :> [endpoint |-> <<"/", "r", "e", "p", "o", "s", "/", "o", "/", "r">>,
        then |-> "plain"] @@
    "getUserRepositories" :> [endpoint |-> <<"/", "u", "s", "e", "r", "/", "r", "e", "p", "o", "s", "?", "l", "i", "m", "i", "t", "=", "1", "0", "0">>,
        then |-> "plain"] @@
    "getRepositoriesByOwner" :> [endpoint |-> <<"/", "u", "s", "e", "r", "s", "/", "o", "/", "r", "e", "p", "o", "s", "?", "l", "i", "m", "i", "t", "=", "1", "0", "0">>,
        then |-> "plain"] @@
    "searchRepositories" :> [endpoint |-> <<"/", "r", "e", "p", "o", "s", "/", "s", "e", "a", "r", "c", "h", "?", "q", "=", "q", "&", "l", "i", "m", "i", "t", "=", "2", "0">>,
        then |-> "search"] @@
    "getRepositoryContents" :> [endpoint |-> <<"/", "r", "e", "p", "o", "s", "/", "o", "/", "r", "/", "c", "o", "n", "t", "e", "n", "t", "s", "/", "d", "?", "r", "e", "f", "=", "m">>,
        then |-> "swallow"]

ApiOps == DOMAIN ApiTable

\* what the fetch of an operation can meet: a 2xx answer with a JSON body
\* of some shape or with no JSON at all, another status, or no answer
Bodies == {"entries", "file", "found", "notJson"}
Answer(body) == [kind |-> "ok", body |-> body]
HttpError(status, statusText) ==
    [kind |-> "notOk", status |-> status, statusText |-> statusText]
ApiResponses ==
    {Answer(b) : b \in Bodies}
    \cup {HttpError(404, <<"N", "o", "t", " ", "F", "o", "u", "n", "d">>), HttpError(500, <<"S", "e", "r", "v", "e", "r", " ", "E", "r", "r", "o", "r">>)}
    \cup {Threw(<<"E", "C", "O", "N", "N", "R", "E", "F", "U", "S", "E", "D">>)}

Returned(value) == [kind |-> "returned", value |-> value, message |-> <<>>]
Thrown(message) == [kind |-> "thrown", value |-> "none", message |-> message]

\* `API Error [${response.status}]: ${response.statusText} - ${endpoint}`
ApiErrorMessage(status, statusText, endpoint) ==
    <<"A", "P", "I", " ", "E", "r", "r", "o", "r", " ", "[">> \o ToDecimal(status) \o <<"]", ":", " ">> \o statusText
        \o <<" ", "-", " ">> \o endpoint

\* request(): fetch rejecting, !response.ok, response.json()
RequestResult(endpoint, resp) ==
    IF resp.kind = "error" THEN Thrown(resp.message)
    ELSE IF resp.kind = "notOk"
    THEN Thrown(ApiErrorMessage(resp.status, resp.statusText, endpoint))
    ELSE IF resp.body = "notJson" THEN Thrown(<<"U", "n", "e", "x", "p", "e", "c", "t", "e", "d", " ", "t", "o", "k", "e", "n">>)
    ELSE Returned(resp.body)

\* getFileContent: data.content, base64-decoded, or 'File content not found'
ContentResult(r) ==
    IF r.kind = "thrown" THEN r
    ELSE IF r.value = "file" THEN Returned("text")
    ELSE Thrown(<<"F", "i", "l", "e", " ", "c", "o", "n", "t", "e", "n", "t", " ", "n", "o", "t", " ", "f", "o", "u", "n", "d">>)

\* searchRepositories: data.data || []
SearchResult(r) ==
    IF r.kind = "thrown" THEN r
    ELSE IF r.value = "found" THEN Returned("entries")
    ELSE Returned("emptyList")

\* getRepositoryContents: data.map(...) inside try, [] from the catch
SwallowResult(r) ==
    IF r.kind = "thrown" THEN Returned("emptyList")
    ELSE IF r.value = "entries" THEN r
    ELSE Returned("emptyList")

\* the operations if every one that lists a directory swallowed its errors
OpResult_SwallowListing(op, r) ==
    IF ApiTable[op].then = "swallow" \/ op = "listDirectoryContents"
    THEN SwallowResult(r)
    ELSE IF ApiTable[op].then = "content" THEN ContentResult(r)
    ELSE IF ApiTable[op].then = "search" THEN SearchResult(r)
    ELSE r

OpResult(op, r) ==
    IF ApiTable[op].then = "swallow" THEN SwallowResult(r)
    ELSE IF ApiTable[op].then = "content" THEN ContentResult(r)
    ELSE IF ApiTable[op].then = "search" THEN SearchResult(r)
    ELSE r

NoApiCall ==
    [op |-> "none", endpoint |-> <<>>, response |-> Answer("entries"),
     result |-> Returned("none")]

Called(op, resp) ==
    apiLast' = [op |-> op, endpoint |-> ApiTable[op].endpoint,
                response |-> resp,
                result |-> OpResult(op,
                    RequestResult(ApiTable[op].endpoint, resp))]

\* an operation on a client whose protocol is not detected yet
ApiFirstCall(op, first, second, resp) ==
    /\ UNCHANGED NotApi
    /\ ~clDetected
    /\ clRequests < MaxRequests
    /\ LET init == initializeConnection(clBaseUrl, first, second)
       IN /\ clBaseUrl' = init.baseUrl
          /\ clDetected' = init.detected
          /\ clProbes' = init.probes
          /\ clDetections' = clDetections + 1
          /\ Send(init.baseUrl, ApiTable[op].endpoint, resp)
    /\ Called(op, resp)
    /\ UNCHANGED clCtorUrl

\* an operation once protocolDetected is set
ApiCall(op, resp) ==
    /\ UNCHANGED NotApi
    /\ clDetected
    /\ clRequests < MaxRequests
    /\ Send(clBaseUrl, ApiTable[op].endpoint, resp)
    /\ Called(op, resp)
    /\ UNCHANGED <<clBaseUrl, clCtorUrl, clDetected, clProbes, clDetections>>

ApiNext ==
    \/ \E op \in ApiOps, f \in FetchOutcomes, g \in FetchOutcomes,
          resp \in ApiResponses : ApiFirstCall(op, f, g, resp)
    \/ \E op \in ApiOps, resp \in ApiResponses : ApiCall(op, resp)

(***************************************************************************)
(* AuthManager: the credential store over SecretStorage                    *)
(***************************************************************************)
AmServers == {<<"h">>, <<"g">>}
AmTokens == {<<"t", "1">>, <<"t", "2">>}
AmUsers == {<<>>, <<"n">>}

\* `gitea:${server}:token` and `gitea:${server}:user`
TokenKey(server) == <<"g", "i", "t", "e", "a", ":">> \o server \o <<":", "t", "o", "k", "e", "n">>
UserKey(server) == <<"g", "i", "t", "e", "a", ":">> \o server \o <<":", "u", "s", "e", "r">>

\* a string or undefined
Undefined == [has |-> FALSE, value |-> <<>>]
Defined(value) == [has |-> TRUE, value |-> value]

\* secrets.get(key)
VaultGet(vault, key) ==
    IF key \in DOMAIN vault THEN Defined(vault[key]) ELSE Undefined

\* setToken: the vault after the stores; the user is stored only when given
VaultAfterSet(vault, server, token, username) ==
    IF Len(username) > 0
    THEN Put(Put(vault, TokenKey(server), token), UserKey(server), username)
    ELSE Put(vault, TokenKey(server), token)

AuthConfig(server, token, username) ==
    [server |-> server, token |-> token, username |-> username]

AmCall(op, server, result, vaultReads) ==
    [op |-> op, server |-> server, result |-> result,
     vaultReads |-> vaultReads]

AmIdle == AmCall("none", <<>>, Undefined, 0)

\* what the store is meant to hold for a server: the token last set and not
\* deleted since
NeverSet == [has |-> FALSE, value |-> <<>>, deleted |-> FALSE]
Deleted == [has |-> FALSE, value |-> <<>>, deleted |-> TRUE]
LastSet(token) == [has |-> TRUE, value |-> token, deleted |-> FALSE]

AmInit ==
    /\ amVault = <<>>
    /\ amCache = <<>>
    /\ amLatest = [s \in AmServers |-> NeverSet]
    /\ amLast = AmIdle

StoreToken(server, token, username) ==
    /\ amVault' = VaultAfterSet(amVault, server, token, username)
    /\ amCache' = Put(amCache, server, AuthConfig(server, token, username))
    /\ amLatest' = [amLatest EXCEPT ![server] = LastSet(token)]

RemoveToken(server) ==
    /\ amVault' = Without(amVault, {TokenKey(server), UserKey(server)})
    /\ amCache' = Without(amCache, {server})
    /\ amLatest' = [amLatest EXCEPT ![server] = Deleted]

AmGetToken(server) ==
    /\ UNCHANGED NotAuth
    /\ amLast' = IF server \in DOMAIN amCache
                 THEN AmCall("getToken", server,
                             Defined(amCache[server].token), 0)
                 ELSE AmCall("getToken", server,
                             VaultGet(amVault, TokenKey(server)), 1)
    /\ UNCHANGED <<amVault, amCache, amLatest>>

AmSetToken(server, token, username) ==
    /\ UNCHANGED NotAuth
    /\ StoreToken(server, token, username)
    /\ amLast' = AmCall("setToken", server, Undefined, 0)

\* deleteToken that forgets the vault entries and keeps the map entry
AmDeleteToken_KeepCache(server) ==
    /\ UNCHANGED NotAuth
    /\ amVault' = Without(amVault, {TokenKey(server), UserKey(server)})
    /\ amLatest' = [amLatest EXCEPT ![server] = Deleted]
    /\ amLast' = AmCall("deleteToken", server, Undefined, 0)
    /\ UNCHANGED amCache

AmDeleteToken(server) ==
    /\ UNCHANGED NotAuth
    /\ RemoveToken(server)
    /\ amLast' = AmCall("deleteToken", server, Undefined, 0)

\* the extension is activated anew: a new AuthManager over the same vault
AmActivate ==
    /\ UNCHANGED NotAuth
    /\ amCache' = <<>>
    /\ amLast' = AmCall("activate", <<>>, Undefined, 0)
    /\ UNCHANGED <<amVault, amLatest>>

AuthNext ==
    \/ \E sv \in AmServers : AmGetToken(sv)
    \/ \E sv \in AmServers, t \in AmTokens, u \in AmUsers :
          AmSetToken(sv, t, u)
    \/ \E sv \in AmServers : AmDeleteToken(sv)
    \/ AmActivate

(***************************************************************************)
(* The session: gitea.connect and gitea.disconnect over the credential     *)
(* store, the settings and the provider's cache                            *)
(***************************************************************************)
\* user.login of the account the token belongs to
Login == <<"n">>

\* a connection test: getCurrentUser by a client for the server and token
NoTest == [made |-> FALSE, server |-> <<>>, token |-> <<>>]
Test(server, token) == [made |-> TRUE, server |-> server, token |-> token]

SessCall(op, outcome, test, cleared) ==
    [op |-> op, outcome |-> outcome, test |-> test, cleared |-> cleared]

NoCommand == SessCall("none", "none", NoTest, NullValue)

\* the provider with an empty cache in front of a forge that serves a file
\* at every address
FsServing ==
    /\ fsCache = <<>>
    /\ fsClients = {}
    /\ fsLast = Idle
    /\ fsFirst = <<>>
    /\ authTokens = {}
    /\ remote = [a \in Addresses |-> FileOf(<<97>>)]

SessionInit ==
    /\ cfgHost = <<>>
    /\ cfgToken = <<>>
    /\ currentServer = NullValue
    /\ treeServer = <<>>
    /\ knownServers = {}
    /\ testedOwn = {}
    /\ testedSince = {}
    /\ sessLast = NoCommand

\* !server || !token
NeedsPrompt(server, token) == Len(server) = 0 \/ Len(token) = 0

\* handleConnect returns null at a dismissed prompt; the server entered
\* before a dismissed token prompt is already saved to the settings
ConnectCancelled(outcome, host) ==
    /\ cfgHost' = host
    /\ sessLast' = SessCall("connect", outcome, NoTest, NullValue)
    /\ UNCHANGED <<cfgToken, currentServer, treeServer, knownServers,
                   testedOwn, testedSince>>
    /\ UNCHANGED <<fsVars, authVars>>

\* the connection test and what follows it, with the token stored before
\* the test
ConnectTested_StoreFirst(server, token, testOk) ==
    /\ cfgHost' = server
    /\ cfgToken' = token
    /\ StoreToken(server, token, Login)
    /\ amLast' = AmCall("setToken", server, Undefined, 0)
    /\ UNCHANGED <<knownServers, currentServer, treeServer, testedOwn,
                   testedSince, fsVars>>
    /\ sessLast' = SessCall("connect",
                            IF testOk THEN "connected" ELSE "testFailed",
                            Test(server, token), NullValue)

\* the connection test and what follows it: the credential is saved and the
\* session switches to the server only when getCurrentUser answered
ConnectTested(server, token, testOk) ==
    /\ cfgHost' = server
    /\ cfgToken' = token
    /\ IF testOk
       THEN /\ StoreToken(server, token, Login)
            /\ amLast' = AmCall("setToken", server, Undefined, 0)
            /\ knownServers' = knownServers \cup {server}
            /\ currentServer' = Defined(server)
            /\ treeServer' = server
            /\ authTokens' = authTokens \cup {server}
            /\ testedOwn' = testedOwn \cup {<<server, token>>}
            /\ testedSince' = testedSince \cup {<<server, token>>}
            /\ sessLast' = SessCall("connect", "connected",
                                    Test(server, token), NullValue)
       ELSE /\ UNCHANGED <<authVars, authTokens, knownServers, currentServer,
                           treeServer, testedOwn, testedSince>>
            /\ sessLast' = SessCall("connect", "testFailed",
                                    Test(server, token), NullValue)
    /\ UNCHANGED <<fsCache, fsClients, fsLast, fsFirst, remote>>

\* gitea.connect: handleConnect and the command's use of its result
Connect(serverInput, tokenInput, testOk) ==
    /\ UNCHANGED NotSession
    /\ IF ~NeedsPrompt(cfgHost, cfgToken)
       THEN ConnectTested(cfgHost, cfgToken, testOk)
       ELSE IF NoMessage(serverInput)
       THEN ConnectCancelled("noServer", cfgHost)
       ELSE IF NoMessage(tokenInput)
       THEN ConnectCancelled("noToken", serverInput.text)
       ELSE ConnectTested(serverInput.text, tokenInput.text, testOk)

\* currentServer || ''
OrEmpty(server) == IF server.has THEN server.value ELSE <<>>

\* the keys clearServerCache(server) deletes
KeysToDelete(cache, server) == {k \in DOMAIN cache : Includes(k, server)}

\* fsProvider.clearServerCache(server)
ServerCacheCleared(server) ==
    /\ fsCache' = Without(fsCache, KeysToDelete(fsCache, server))
    /\ fsFirst' = Without(fsFirst, KeysToDelete(fsCache, server))
    /\ fsLast' = Call("clearServerCache", server, "none", NoBytes, 0, 0, FALSE)

\* gitea.disconnect: the cache is cleared after currentServer was set to
\* null, with the value currentServer has by then
Disconnect ==
    /\ UNCHANGED NotSession
    /\ IF currentServer.has
       THEN /\ RemoveToken(currentServer.value)
            /\ amLast' = AmCall("deleteToken", currentServer.value, Undefined, 0)
            /\ authTokens' = authTokens \ {currentServer.value}
            /\ currentServer' = NullValue
            /\ treeServer' = <<>>
            /\ ServerCacheCleared(OrEmpty(currentServer'))
            /\ testedOwn' = {p \in testedOwn : p[1] # currentServer.value}
            /\ testedSince' = {}
            /\ sessLast' = SessCall("disconnect", "disconnected", NoTest,
                                    Defined(OrEmpty(currentServer')))
            /\ UNCHANGED <<cfgHost, cfgToken, knownServers, fsClients, remote>>
       ELSE /\ sessLast' = SessCall("disconnect", "notConnected", NoTest,
                                    NullValue)
            /\ UNCHANGED <<cfgHost, cfgToken, currentServer, treeServer,
                           knownServers, testedOwn, testedSince>>
            /\ UNCHANGED <<fsVars, authVars>>

\* the user changes g2r.host and g2r.token in the settings
ConfigChange(host, token) ==
    /\ UNCHANGED NotSession
    /\ <<host, token>> # <<cfgHost, cfgToken>>
    /\ cfgHost' = host
    /\ cfgToken' = token
    /\ sessLast' = SessCall("config", "none", NoTest, NullValue)
    /\ UNCHANGED <<currentServer, treeServer, knownServers, testedOwn,
                   testedSince>>
    /\ UNCHANGED <<fsVars, authVars>>

\* the files the user opens: one of each server
OpenedUris == {UriFile, UriDir}

ServerInputs == {Dismissed} \cup {Entered(sv) : sv \in AmServers}
TokenInputs == {Dismissed} \cup {Entered(t) : t \in AmTokens}

SessionNext ==
    \/ \E si \in ServerInputs, ti \in TokenInputs, ok \in BOOLEAN :
          Connect(si, ti, ok)
    \/ Disconnect
    \/ \E h \in AmServers \cup {<<>>}, t \in AmTokens \cup {<<>>} :
          ConfigChange(h, t)
    \/ \E u \in OpenedUris : FsReadFile(u)

(***************************************************************************)
(* LocalRepoManager.getLocalRepositories: the clones under the root        *)
(***************************************************************************)
\* Settings.getLocalClonePath()
Root == <<"/", "c">>
\* the names readdirSync returns, in its order
EntryNames == <<<<"a">>, <<"b">>, <<"c">>, <<"d">>>>
MaxEntries == 2

DotGit == <<".", "g", "i", "t">>

\* stdout of git config --get remote.origin.url
OriginUrls == {<<"h", "t", "t", "p", ":", "/", "/", "h", "/", "o", "/", "r", ".", "g", "i", "t">> \o <<"\n">>,
               <<"h", "t", "t", "p", ":", "/", "/", "h", "/", "u", "/", "s">> \o <<"\n">>,
               <<"g", "i", "t", "@", "h", ":", "o", "/", "r", ".", "g", "i", "t", "\n">>,
               <<"h", "t", "t", "p", ":", "/", "/", "h", "/", "o", "/", "r", "/">> \o <<"\n">>,
               <<"h", "t", "t", "p", ":", "/", "/", "h", "/", "o", "/", ".", "g", "i", "t">> \o <<"\n">>}

\* the remote query of a directory: exec rejects, or resolves with stdout
NoOrigin == [ok |-> FALSE, stdout |-> <<>>]
Origin(stdout) == [ok |-> TRUE, stdout |-> stdout]

\* an entry of the root: a plain file, a directory without .git, a
\* directory with a .git directory, a directory with a .git file, or a name
\* statSync throws for (a dangling link)
RepoKinds == {"gitDir", "gitFile"}
Entry(kind, origin) == [kind |-> kind, origin |-> origin]
Entries ==
    {Entry(k, NoOrigin) : k \in {"file", "dir", "broken"}}
    \cup {Entry(k, o) : k \in RepoKinds,
                        o \in {NoOrigin} \cup {Origin(u) : u \in OriginUrls}}

NoMatch == [ok |-> FALSE, owner |-> <<>>, name |-> <<>>]
Match(owner, name) == [ok |-> TRUE, owner |-> owner, name |-> name]

\* ([^/]+?)(\.git)?$ on the text after the last slash: the shortest name
LazyName(tail) ==
    IF Len(tail) > Len(DotGit) /\ EndsWith(tail, DotGit)
    THEN SubSeq(tail, 1, Len(tail) - Len(DotGit))
    ELSE tail

\* the match that starts at slash i and has its second slash at j, the last
\* slash of the url
MatchAt(url, i, j) ==
    IF i = 0 \/ j - i < 2 \/ j = Len(url) THEN NoMatch
    ELSE Match(SubSeq(url, i + 1, j - 1), LazyName(Slice(url, j)))

OriginMatchFrom(url, j) ==
    IF j = 0 THEN NoMatch
    ELSE MatchAt(url, LastIndexOf(Before(url, j), <<"/">>), j)

\* cleanUrl.match(/\/([^/]+)\/([^/]+?)(\.git)?$/)
OriginMatch(url) == OriginMatchFrom(url, LastIndexOf(url, <<"/">>))

OriginMatches == [u \in OriginUrls |-> OriginMatch(Trim(u))]

LocalConfig(dir, cloneUrl, m) ==
    [path |-> Root \o <<"/">> \o dir, cloneUrl |-> cloneUrl,
     owner |-> m.owner, name |-> m.name]

Listing(repos, errors, queries) ==
    [called |-> TRUE, repos |-> repos, errors |-> errors, queries |-> queries]

NoListing == [called |-> FALSE, repos |-> <<>>, errors |-> 0, queries |-> 0]

\* the inner try pushing a config whether or not the url matched
Queried_KeepUnmatched(repos, dir, origin) ==
    IF origin.ok
    THEN Append(repos, LocalConfig(dir, Trim(origin.stdout),
                                   OriginMatches[origin.stdout]))
    ELSE repos

\* the inner try for one repository directory: a rejected query and a url
\* without match leave the list as it is
Queried(repos, dir, origin) ==
    IF origin.ok /\ OriginMatches[origin.stdout].ok
    THEN Append(repos, LocalConfig(dir, Trim(origin.stdout),
                                   OriginMatches[origin.stdout]))
    ELSE repos

RECURSIVE ScanFrom(_, _, _, _)
\* the loop over the directory entries from the i-th on; statSync throwing
\* ends it in the outer catch, which shows an error
ScanFrom(entries, i, repos, queries) ==
    IF i > Len(entries) THEN Listing(repos, 0, queries)
    ELSE IF entries[i].kind = "broken" THEN Listing(repos, 1, queries)
    ELSE IF entries[i].kind \in RepoKinds
    THEN ScanFrom(entries, i + 1,
                  Queried(repos, EntryNames[i], entries[i].origin),
                  queries + 1)
    ELSE ScanFrom(entries, i + 1, repos, queries)

getLocalRepositories(exists, entries) ==
    IF ~exists THEN Listing(<<>>, 0, 0) ELSE ScanFrom(entries, 1, <<>>, 0)

LocalInit ==
    /\ rootExists = FALSE
    /\ rootEntries = <<>>
    /\ listLast = NoListing

\* the root directory is created
RootCreate ==
    /\ UNCHANGED NotLocal
    /\ ~rootExists
    /\ rootExists' = TRUE
    /\ listLast' = NoListing
    /\ UNCHANGED rootEntries

\* an entry appears in the root
RootAdd(entry) ==
    /\ UNCHANGED NotLocal
    /\ rootExists
    /\ Len(rootEntries) < MaxEntries
    /\ rootEntries' = Append(rootEntries, entry)
    /\ listLast' = NoListing
    /\ UNCHANGED rootExists

\* the root is emptied
RootClear ==
    /\ UNCHANGED NotLocal
    /\ rootEntries # <<>>
    /\ rootEntries' = <<>>
    /\ listLast' = NoListing
    /\ UNCHANGED rootExists

GetLocalRepositories ==
    /\ UNCHANGED NotLocal
    /\ listLast' = getLocalRepositories(rootExists, rootEntries)
    /\ UNCHANGED <<rootExists, rootEntries>>

LocalNext ==
    \/ RootCreate
    \/ \E en \in Entries : RootAdd(en)
    \/ RootClear
    \/ GetLocalRepositories

(***************************************************************************)
(* The clone command: cloneToLocal, performLocalClone and the events of    *)
(* the git child process; the writer of the sidecar metadata file          *)
(***************************************************************************)
\* path.join(targetDir, repoName) and the folder of the 'New folder' answer
RepoDir == <<"r">>
NewDir == <<"r", "-", "c", "l", "o", "n", "e">>
CloneDirs == {RepoDir, NewDir}

\* what a folder on disk is: absent, a folder that is no clone, a clone
DirStates == {"absent", "other", "clone"}

\* a promise: not created, pending, or settled
Unmade == [state |-> "none", message |-> <<>>]
Pending == [state |-> "pending", message |-> <<>>]
Fulfilled == [state |-> "fulfilled", message |-> <<>>]
Rejected(message) == [state |-> "rejected", message |-> message]

\* resolve / reject of a promise: only the first call has an effect
Settle(promise, outcome) ==
    IF promise.state = "pending" THEN outcome ELSE promise

\* the code of the close event: a number, or null after a signal
Code(n) == [signal |-> FALSE, value |-> n]
Signalled == [signal |-> TRUE, value |-> 0]
NoCode == [signal |-> FALSE, value |-> 999]
CodeText(code) == IF code.signal THEN <<"n", "u", "l", "l">> ELSE ToDecimal(code.value)

CloneCancelled == <<"C", "l", "o", "n", "e", " ", "c", "a", "n", "c", "e", "l", "l", "e", "d">>
PrepareError == <<"E", "A", "C", "C", "E", "S">>
SpawnError == <<"s", "p", "a", "w", "n", " ", "g", "i", "t", " ", "E", "N", "O", "E", "N", "T">>
StderrTexts == {<<>>, <<"f", "a", "t", "a", "l">>}

\* errorOutput || `Git clone failed with code ${code}`
ExitFailure(errorOutput, code) ==
    IF Len(errorOutput) > 0 THEN errorOutput
    ELSE <<"G", "i", "t", " ", "c", "l", "o", "n", "e", " ", "f", "a", "i", "l", "e", "d", " ", "w", "i", "t", "h", " ", "c", "o", "d", "e", " ">> \o CodeText(code)

NoJob == [target |-> <<>>, removeExisting |-> FALSE]
Job(target, removeExisting) ==
    [target |-> target, removeExisting |-> removeExisting]

Metadata(server, owner, repo) ==
    [server |-> server, owner |-> owner, repo |-> repo, branch |-> <<"m", "a", "s", "t", "e", "r">>]

CloneInit ==
    /\ cloneJob = NoJob
    /\ cloneProc = "none"
    /\ taskPromise = Unmade
    /\ clonePromise = Unmade
    /\ cloneCancelled = FALSE
    /\ closeCode = NoCode
    /\ cloneShown = {}
    /\ diskDirs = [d \in CloneDirs |-> "absent"]
    /\ metaFiles = <<>>

\* cloneToLocal returns at a dismissed dialog: no clone is started
NotStarted ==
    UNCHANGED <<cloneJob, cloneProc, taskPromise, clonePromise,
                cloneCancelled, closeCode, cloneShown, diskDirs, metaFiles>>

\* performLocalClone up to the spawn: a throw of rmSync or mkdirSync rejects
\* the returned promise, which cloneToLocal reports; else git is spawned and
\* both promises are pending
Prepared(target, removeExisting, prepOk) ==
    /\ cloneJob' = Job(target, removeExisting)
    /\ cloneCancelled' = FALSE
    /\ closeCode' = NoCode
    /\ IF prepOk
       THEN /\ diskDirs' = IF removeExisting
                           THEN [diskDirs EXCEPT ![target] = "absent"]
                           ELSE diskDirs
            /\ metaFiles' = IF removeExisting
                            THEN Without(metaFiles, {target})
                            ELSE metaFiles
            /\ cloneProc' = "running"
            /\ taskPromise' = Pending
            /\ clonePromise' = Pending
            /\ cloneShown' = {}
       ELSE /\ cloneProc' = "none"
            /\ taskPromise' = Unmade
            /\ clonePromise' = Rejected(PrepareError)
            /\ cloneShown' = {"Clone to local failed"}
            /\ UNCHANGED <<diskDirs, metaFiles>>

\* cloneToLocal once the target folder was picked
Targeted(choice, named, prepOk) ==
    IF diskDirs[RepoDir] = "absent" THEN Prepared(RepoDir, FALSE, prepOk)
    ELSE IF choice = "New folder"
    THEN IF named /\ diskDirs[NewDir] = "absent"
         THEN Prepared(NewDir, FALSE, prepOk)
         ELSE NotStarted
    ELSE IF choice = "Overwrite" THEN Prepared(RepoDir, TRUE, prepOk)
    ELSE NotStarted

ExistsChoices == {"none", "Cancel", "New folder", "Overwrite"}

\* the clone command with the answer 'Local Clone'
CloneToLocal(picked, choice, named, prepOk) ==
    /\ UNCHANGED NotClone
    /\ cloneProc \notin {"running", "killed"}
    /\ IF picked THEN Targeted(choice, named, prepOk) ELSE NotStarted

\* the close codes the process can end with: a killed process ends by the
\* signal, or had finished before the signal arrived
CloseCodes(proc) ==
    IF proc = "killed" THEN {Signalled, Code(0)} ELSE {Code(0), Code(128)}

\* clone.on('close'): code 0 shows the success message and resolves the
\* progress task, any other code rejects it
ProcClose(code, errorOutput) ==
    /\ UNCHANGED NotClone
    /\ cloneProc \in {"running", "killed"}
    /\ code \in CloseCodes(cloneProc)
    /\ cloneProc' = "closed"
    /\ closeCode' = code
    /\ IF code = Code(0)
       THEN /\ cloneShown' = cloneShown \cup {"cloned"}
            /\ taskPromise' = Settle(taskPromise, Fulfilled)
            /\ diskDirs' = [diskDirs EXCEPT ![cloneJob.target] = "clone"]
       ELSE /\ taskPromise' =
                  Settle(taskPromise, Rejected(ExitFailure(errorOutput, code)))
            /\ UNCHANGED <<cloneShown, diskDirs>>
    /\ UNCHANGED <<cloneJob, clonePromise, cloneCancelled, metaFiles>>

\* clone.on('error')
ProcError ==
    /\ UNCHANGED NotClone
    /\ cloneProc = "running"
    /\ cloneProc' = "closed"
    /\ taskPromise' = Settle(taskPromise, Rejected(SpawnError))
    /\ UNCHANGED <<cloneJob, clonePromise, cloneCancelled, closeCode,
                   cloneShown, diskDirs, metaFiles>>

\* token.onCancellationRequested: clone.kill() and gitReject
Cancel ==
    /\ UNCHANGED NotClone
    /\ cloneProc = "running"
    /\ taskPromise.state = "pending"
    /\ cloneProc' = "killed"
    /\ cloneCancelled' = TRUE
    /\ taskPromise' = Settle(taskPromise, Rejected(CloneCancelled))
    /\ UNCHANGED <<cloneJob, clonePromise, closeCode, cloneShown, diskDirs,
                   metaFiles>>

MetaOwners == {<<>>, <<"o">>}
MetaRepos == {<<>>, <<"r">>}

\* gitea.syncRepository into a folder that is no git repository: the
\* metadata is written when the user answers 'Open Folder'
SyncToFolder(owner, repo, dir, syncOk, open) ==
    /\ UNCHANGED NotClone
    /\ IF Len(owner) = 0 \/ Len(repo) = 0 \/ ~syncOk
       THEN UNCHANGED <<diskDirs, metaFiles>>
       ELSE /\ diskDirs' = IF diskDirs[dir] = "absent"
                           THEN [diskDirs EXCEPT ![dir] = "other"]
                           ELSE diskDirs
            /\ metaFiles' = IF open
                            THEN Put(metaFiles, dir,
                                     Metadata(<<"u", "n", "k", "n", "o", "w", "n">>, owner, repo))
                            ELSE metaFiles
    /\ UNCHANGED <<cloneJob, cloneProc, taskPromise, clonePromise,
                   cloneCancelled, closeCode, cloneShown>>

CloneNext ==
    \/ \E picked \in BOOLEAN, choice \in ExistsChoices, named \in BOOLEAN,
          prepOk \in BOOLEAN : CloneToLocal(picked, choice, named, prepOk)
    \/ \E code \in {Code(0), Code(128), Signalled}, err \in StderrTexts :
          ProcClose(code, err)
    \/ ProcError
    \/ Cancel
    \/ \E o \in MetaOwners, r \in MetaRepos, d \in CloneDirs,
          syncOk \in BOOLEAN, open \in BOOLEAN :
          SyncToFolder(o, r, d, syncOk, open)

(***************************************************************************)
(* Requests started concurrently on one GiteaClient: every await of        *)
(* request, initializeConnection and detectProtocol is a point where       *)
(* another request may run                                                 *)
(***************************************************************************)
MaxConcurrent == 2
Callers == 1..MaxConcurrent

\* where a request is: not started, awaiting the HTTPS probe, awaiting the
\* HTTP probe, or sent
NotStartedRequest ==
    [pc |-> "new", testUrl |-> <<>>, first |-> Ok, base |-> <<>>, url |-> <<>>]
AwaitingHttps(testUrl) ==
    [pc |-> "https", testUrl |-> testUrl, first |-> Ok, base |-> <<>>, url |-> <<>>]
AwaitingHttp(testUrl, first) ==
    [pc |-> "http", testUrl |-> testUrl, first |-> first, base |-> <<>>, url |-> <<>>]
SentRequest(base, endpoint) ==
    [pc |-> "sent", testUrl |-> <<>>, first |-> Ok, base |-> base, url |-> base \o endpoint]

ProbeInit ==
    /\ \E b \in ClientInputs : prBaseUrl = ClientConstruct(b)
    /\ prDetected = FALSE
    /\ prRuns = 0
    /\ prReq = [c \in Callers |-> NotStartedRequest]

\* request() up to its first await: the flag is tested, and when it is unset
\* initializeConnection tests it again and calls detectProtocol(this.baseUrl),
\* which sends the HTTPS probe
PrStart(c, endpoint) ==
    /\ UNCHANGED NotProbe
    /\ prReq[c].pc = "new"
    /\ IF prDetected
       THEN /\ prReq' = [prReq EXCEPT ![c] = SentRequest(prBaseUrl, endpoint)]
            /\ UNCHANGED prRuns
       ELSE /\ prReq' = [prReq EXCEPT ![c] = AwaitingHttps(TestUrl(prBaseUrl))]
            /\ prRuns' = prRuns + 1
    /\ UNCHANGED <<prBaseUrl, prDetected>>

\* the rest of initializeConnection and of request() once detectProtocol has
\* returned or thrown
PrDetected(c, endpoint, d) ==
    /\ prBaseUrl' = Initialized(prBaseUrl, d).baseUrl
    /\ prDetected' = Initialized(prBaseUrl, d).detected
    /\ prReq' = [prReq EXCEPT ![c] = SentRequest(prBaseUrl', endpoint)]
    /\ UNCHANGED prRuns

\* the HTTPS probe of a request completes
PrHttpsDone(c, endpoint, first) ==
    /\ UNCHANGED NotProbe
    /\ prReq[c].pc = "https"
    /\ IF first.kind = "error" /\ IsSslError(first.message)
       THEN /\ prReq' = [prReq EXCEPT ![c] = AwaitingHttp(prReq[c].testUrl, first)]
            /\ UNCHANGED <<prBaseUrl, prDetected, prRuns>>
       ELSE PrDetected(c, endpoint, DetectFrom(prReq[c].testUrl, first, Ok))

\* the HTTP probe of a request completes
PrHttpDone(c, endpoint, second) ==
    /\ UNCHANGED NotProbe
    /\ prReq[c].pc = "http"
    /\ PrDetected(c, endpoint, DetectFrom(prReq[c].testUrl, prReq[c].first, second))

ProbeNext ==
    \/ \E c \in Callers, e \in Endpoints : PrStart(c, e)
    \/ \E c \in Callers, e \in Endpoints, f \in FetchOutcomes : PrHttpsDone(c, e, f)
    \/ \E c \in Callers, e \in Endpoints, f \in FetchOutcomes : PrHttpDone(c, e, f)

(***************************************************************************)
(* Calls of the AuthManager started concurrently for one server: every     *)
(* await of setToken, deleteToken and getToken is a point where another    *)
(* call may run                                                            *)
(***************************************************************************)
CredServer == <<"h">>

NotCalled ==
    [op |-> "none", pc |-> "new", token |-> <<>>, username |-> <<>>,
     result |-> Undefined]
CredCall(op, pc, token, username, result) ==
    [op |-> op, pc |-> pc, token |-> token, username |-> username,
     result |-> result]
At(call, pc) == [call EXCEPT !.pc = pc]

CredInit ==
    /\ crVault = <<>>
    /\ crCache = <<>>
    /\ crCall = [c \in Callers |-> NotCalled]

\* setToken up to its first await: secrets.store(cacheKey, token)
CrSetToken(c, token, username) ==
    /\ UNCHANGED NotCred
    /\ crCall[c].pc = "new"
    /\ crVault' = Put(crVault, TokenKey(CredServer), token)
    /\ crCall' = [crCall EXCEPT ![c] =
                     CredCall("setToken",
                              IF Len(username) > 0 THEN "storeUser" ELSE "cacheSet",
                              token, username, Undefined)]
    /\ UNCHANGED crCache

\* setToken after the first store: secrets.store(userKey, username)
CrStoreUser(c) ==
    /\ UNCHANGED NotCred
    /\ crCall[c].pc = "storeUser"
    /\ crVault' = Put(crVault, UserKey(CredServer), crCall[c].username)
    /\ crCall' = [crCall EXCEPT ![c] = At(crCall[c], "cacheSet")]
    /\ UNCHANGED crCache

\* setToken after its last await: configCache.set
CrCacheSet(c) ==
    /\ UNCHANGED NotCred
    /\ crCall[c].pc = "cacheSet"
    /\ crCache' = Put(crCache, CredServer,
                      AuthConfig(CredServer, crCall[c].token, crCall[c].username))
    /\ crCall' = [crCall EXCEPT ![c] = At(crCall[c], "done")]
    /\ UNCHANGED crVault

\* deleteToken up to its first await: secrets.delete(cacheKey)
CrDeleteToken(c) ==
    /\ UNCHANGED NotCred
    /\ crCall[c].pc = "new"
    /\ crVault' = Without(crVault, {TokenKey(CredServer)})
    /\ crCall' = [crCall EXCEPT ![c] =
                     CredCall("deleteToken", "deleteUser", <<>>, <<>>, Undefined)]
    /\ UNCHANGED crCache

\* deleteToken after the first delete: secrets.delete(userKey)
CrDeleteUser(c) ==
    /\ UNCHANGED NotCred
    /\ crCall[c].pc = "deleteUser"
    /\ crVault' = Without(crVault, {UserKey(CredServer)})
    /\ crCall' = [crCall EXCEPT ![c] = At(crCall[c], "cacheDelete")]
    /\ UNCHANGED crCache

\* deleteToken after its last await: configCache.delete
CrCacheDelete(c) ==
    /\ UNCHANGED NotCred
    /\ crCall[c].pc = "cacheDelete"
    /\ crCache' = Without(crCache, {CredServer})
    /\ crCall' = [crCall EXCEPT ![c] = At(crCall[c], "done")]
    /\ UNCHANGED crVault

\* getToken up to its await: the map answers, or secrets.get is awaited
CrGetToken(c) ==
    /\ UNCHANGED NotCred
    /\ crCall[c].pc = "new"
    /\ crCall' = [crCall EXCEPT ![c] =
                     IF CredServer \in DOMAIN crCache
                     THEN CredCall("getToken", "done", <<>>, <<>>,
                                   Defined(crCache[CredServer].token))
                     ELSE CredCall("getToken", "vaultGet", <<>>, <<>>, Undefined)]
    /\ UNCHANGED <<crVault, crCache>>

\* getToken after secrets.get
CrVaultGet(c) ==
    /\ UNCHANGED NotCred
    /\ crCall[c].pc = "vaultGet"
    /\ crCall' = [crCall EXCEPT ![c] =
                     CredCall("getToken", "done", <<>>, <<>>,
                              VaultGet(crVault, TokenKey(CredServer)))]
    /\ UNCHANGED <<crVault, crCache>>

CredNext ==
    \/ \E c \in Callers, t \in AmTokens, u \in AmUsers : CrSetToken(c, t, u)
    \/ \E c \in Callers : CrStoreUser(c)
    \/ \E c \in Callers : CrCacheSet(c)
    \/ \E c \in Callers : CrDeleteToken(c)
    \/ \E c \in Callers : CrDeleteUser(c)
    \/ \E c \in Callers : CrCacheDelete(c)
    \/ \E c \in Callers : CrGetToken(c)
    \/ \E c \in Callers : CrVaultGet(c)

(***************************************************************************)
(* Opening a remote file: handleConnect stores the token under the server  *)
(* string, gitea.openRepository fills the file tree, and gitea.openFile    *)
(* (handleOpenFile) is run by a caller or by a click on a file tree item   *)
(***************************************************************************)
\* server strings for which the connection test can succeed: a host name,
\* with or without a port
ServerStrings == {<<"h">>, <<"h", ":", "3">>, <<"g", ".", "e">>}
EntryPaths == {<<"f">>, <<"d", "/", "f">>}
Master == <<"m", "a", "s", "t", "e", "r">>
OpenRefs == {HEAD, Master}

NoTree == [owner |-> <<>>, repo |-> <<>>, branch |-> <<>>]
NoOpen == [via |-> "none", meant |-> NoArgs, uri |-> <<>>, parsed |-> ParseFailed,
           tokenFound |-> FALSE]
Meant(server, owner, repo, path, ref) ==
    [server |-> server, owner |-> owner, repo |-> repo, path |-> path, ref |-> ref]

OpenInit ==
    /\ opServer = NullValue
    /\ opKeys = {}
    /\ opTree = NoTree
    /\ opLast = NoOpen

\* handleConnect whose connection test succeeds: authManager.setToken(server,
\* ...) under the string as entered, which becomes currentServer
OpConnect(server) ==
    /\ UNCHANGED NotOpen
    /\ opServer' = Defined(server)
    /\ opKeys' = opKeys \cup {server}
    /\ opLast' = NoOpen
    /\ UNCHANGED opTree

\* gitea.openRepository: fileTreeProvider.setRepository(owner, repo, 'master')
OpOpenRepository(owner, repo) ==
    /\ UNCHANGED NotOpen
    /\ opServer.has
    /\ opTree' = [owner |-> owner, repo |-> repo, branch |-> Master]
    /\ opLast' = NoOpen
    /\ UNCHANGED <<opServer, opKeys>>

\* handleOpenFile(server, owner, repo, path, ref): the URI is built, and the
\* Virtual Filesystem parses it and looks the token up under the parsed server
handleOpenFile(via, meant, server, owner, repo, path, ref) ==
    /\ opLast' = [via |-> via, meant |-> meant,
                  uri |-> createGiteaUri(server, owner, repo, path, ref),
                  parsed |-> parseGiteaUri(createGiteaUri(server, owner, repo, path, ref)),
                  tokenFound |->
                      /\ parseGiteaUri(createGiteaUri(server, owner, repo, path, ref)).ok
                      /\ parseGiteaUri(createGiteaUri(server, owner, repo, path, ref)).server
                             \in opKeys]
    /\ UNCHANGED <<opServer, opKeys, opTree>>

\* gitea.openFile run with the connected server and explicit arguments
OpOpenFile(owner, repo, path, ref) ==
    /\ UNCHANGED NotOpen
    /\ opServer.has
    /\ handleOpenFile("call", Meant(opServer.value, owner, repo, path, ref),
                      opServer.value, owner, repo, path, ref)

\* a click on the file tree item of an entry: gitea.openFile with the item's
\* arguments [currentOwner, currentRepo, entry.path, currentBranch]; the
\* fifth parameter takes its default
OpClick(entryPath) ==
    /\ UNCHANGED NotOpen
    /\ opServer.has
    /\ opTree # NoTree
    /\ handleOpenFile("tree",
                      Meant(opServer.value, opTree.owner, opTree.repo, entryPath,
                            opTree.branch),
                      opTree.owner, opTree.repo, entryPath, opTree.branch, HEAD)

OpenNext ==
    \/ \E sv \in ServerStrings : OpConnect(sv)
    \/ \E o \in Owners, r \in Repos : OpOpenRepository(o, r)
    \/ \E o \in Owners, r \in Repos, p \in EntryPaths, ref \in OpenRefs :
          OpOpenFile(o, r, p, ref)
    \/ \E p \in EntryPaths : OpClick(p)

(***************************************************************************)
(* The auto-refresh timer: activate, startAutoRefresh, the timer's         *)
(* callback, deactivate and the disposal of context.subscriptions          *)
(***************************************************************************)
MaxTicks == 2
\* the handles setInterval can return during one activation; 0 is null
TimerHandles == 1..2
NullTimer == 0

TimerHosts == {<<>>, <<"h">>}
TimerTokens == {<<>>, <<"t">>}

\* Settings.isConfigured: host and token are both set
isConfigured(host, token) == Len(host) > 0 /\ Len(token) > 0

Timers(scheduled, timer, disposables) ==
    [scheduled |-> scheduled, refreshTimer |-> timer, disposables |-> disposables]

\* startAutoRefresh: setInterval returns a new handle, which is assigned to
\* refreshTimer, and a disposable clearing refreshTimer is pushed
startAutoRefresh(t) ==
    Timers(t.scheduled \cup {Cardinality(t.scheduled) + 1},
           Cardinality(t.scheduled) + 1,
           t.disposables + 1)

\* clearInterval(refreshTimer) behind `if (refreshTimer)`
Cleared(scheduled, timer) ==
    IF timer # NullTimer THEN scheduled \ {timer} ELSE scheduled

TimerInit ==
    /\ tmPhase = "inactive"
    /\ tmScheduled = {}
    /\ refreshTimer = NullTimer
    /\ tmDisposables = 0
    /\ tmTicks = [h \in TimerHandles |-> 0]
    /\ tmHost = <<>>
    /\ tmToken = <<>>
    /\ tmRequests = 0

\* activate: its last two statements both call startAutoRefresh(context)
TmActivate ==
    /\ UNCHANGED NotTimer
    /\ tmPhase = "inactive"
    /\ tmPhase' = "active"
    /\ tmScheduled' =
          startAutoRefresh(startAutoRefresh(
              Timers(tmScheduled, refreshTimer, tmDisposables))).scheduled
    /\ refreshTimer' =
          startAutoRefresh(startAutoRefresh(
              Timers(tmScheduled, refreshTimer, tmDisposables))).refreshTimer
    /\ tmDisposables' =
          startAutoRefresh(startAutoRefresh(
              Timers(tmScheduled, refreshTimer, tmDisposables))).disposables
    /\ UNCHANGED <<tmTicks, tmHost, tmToken, tmRequests>>

\* the callback of a scheduled timer: Settings.isConfigured() is read and
\* both branches are empty
TmTick(h) ==
    /\ UNCHANGED NotTimer
    /\ h \in tmScheduled
    /\ tmTicks[h] < MaxTicks
    /\ tmTicks' = [tmTicks EXCEPT ![h] = tmTicks[h] + 1]
    /\ tmRequests' = IF isConfigured(tmHost, tmToken) THEN tmRequests ELSE tmRequests
    /\ UNCHANGED <<tmPhase, tmScheduled, refreshTimer, tmDisposables, tmHost,
                   tmToken>>

\* deactivate()
TmDeactivate ==
    /\ UNCHANGED NotTimer
    /\ tmPhase = "active"
    /\ tmPhase' = "deactivated"
    /\ tmScheduled' = Cleared(tmScheduled, refreshTimer)
    /\ UNCHANGED <<refreshTimer, tmDisposables, tmTicks, tmHost, tmToken,
                   tmRequests>>

\* context.subscriptions are disposed: every disposable startAutoRefresh
\* pushed clears the timer refreshTimer holds then
TmDispose ==
    /\ UNCHANGED NotTimer
    /\ tmPhase \in {"active", "deactivated"}
    /\ tmDisposables > 0
    /\ tmDisposables' = 0
    /\ tmScheduled' = Cleared(tmScheduled, refreshTimer)
    /\ UNCHANGED <<tmPhase, refreshTimer, tmTicks, tmHost, tmToken, tmRequests>>

\* the user edits the g2r settings
TmConfigure(host, token) ==
    /\ UNCHANGED NotTimer
    /\ <<host, token>> # <<tmHost, tmToken>>
    /\ tmHost' = host
    /\ tmToken' = token
    /\ UNCHANGED <<tmPhase, tmScheduled, refreshTimer, tmDisposables, tmTicks,
                   tmRequests>>

TimerNext ==
    \/ TmActivate
    \/ \E h \in TimerHandles : TmTick(h)
    \/ TmDeactivate
    \/ TmDispose
    \/ \E host \in TimerHosts, token \in TimerTokens : TmConfigure(host, token)

(***************************************************************************)
(* The pull request and settings commands: each handler from its test of   *)
(* the settings to its last message                                        *)
(***************************************************************************)
CmdHost == <<"h", "t", "t", "p", ":", "/", "/", "h", "/", "a", "p", "i", "/", "v", "1">>
CmdHosts == {<<>>, CmdHost, <<"h", "t", "t", "p", "s", ":", "/", "/", "g", "/", "a", "p", "i", "/", "v", "1">>}
CmdTokens == {<<>>, <<"t">>, <<"u">>}
UserEndpoint == <<"/", "u", "s", "e", "r">>
PullEndpoint == <<"/", "r", "e", "p", "o", "s", "/", "o", "/", "r", "/", "p", "u", "l", "l", "s", "/", "1">>

\* Settings.getSettingState() === SettingState.OK
SettingsConfigured(host, token) == Len(token) > 0 /\ Len(host) > 0

\* what a run of a handler did: whether the settings were complete when it
\* tested them (or, for a handler without a test, when it built its client),
\* whether the user dismissed a prompt, the message shown, the fetches made
\* and the URL of the request
CmdRun(handler, configured, dismissed, message, fetches, url) ==
    [handler |-> handler, configured |-> configured, dismissed |-> dismissed,
     message |-> message, fetches |-> fetches, url |-> url]
NoRun == CmdRun("none", FALSE, FALSE, "none", 0, <<>>)

\* a request through `new GiteaClient()`: the base URL comes from the host
\* setting, the first request probes the protocol, then the endpoint is
\* fetched
Requested(handler, configured, init, endpoint, outcome, done, failed) ==
    CmdRun(handler, configured, FALSE,
           IF outcome.kind = "ok" THEN done ELSE failed,
           Len(init.probes) + 1, init.baseUrl \o endpoint)

\* a handler that tests Settings.isConfigured() first
Guarded(handler, proceed, endpoint, first, second, outcome, done, failed) ==
    /\ cmLast' =
          IF ~SettingsConfigured(cmHost, cmToken)
          THEN CmdRun(handler, FALSE, FALSE, "notConfigured", 0, <<>>)
          ELSE IF ~proceed
          THEN CmdRun(handler, TRUE, TRUE, "none", 0, <<>>)
          ELSE Requested(handler, TRUE,
                         initializeConnection(ClientConstruct(cmHost), first, second),
                         endpoint, outcome, done, failed)
    /\ UNCHANGED <<cmHost, cmToken>>

CmdInit ==
    /\ cmHost = <<>>
    /\ cmToken = <<>>
    /\ cmLast = NoRun

\* handleAcceptPullRequest: confirmation and merge method are prompts
CmAccept(proceed, first, second, outcome) ==
    /\ UNCHANGED NotCmd
    /\ Guarded("accept", proceed, PullEndpoint \o <<"/", "m", "e", "r", "g", "e">>, first, second,
               outcome, "merged", "failedToMerge")

\* handleRejectPullRequest
CmReject(proceed, first, second, outcome) ==
    /\ UNCHANGED NotCmd
    /\ Guarded("reject", proceed, PullEndpoint, first, second, outcome,
               "closed", "failedToClose")

\* handleDiffPullRequest: no prompt before the request
CmDiff(first, second, outcome) ==
    /\ UNCHANGED NotCmd
    /\ Guarded("diff", TRUE, PullEndpoint \o <<"/", "f", "i", "l", "e", "s">>, first, second, outcome,
               "files", "failedToLoad")

\* handleRefreshPullRequests: no client is built at all
CmRefresh ==
    /\ UNCHANGED NotCmd
    /\ cmLast' = IF ~SettingsConfigured(cmHost, cmToken)
                 THEN CmdRun("refresh", FALSE, FALSE, "notConfigured", 0, <<>>)
                 ELSE CmdRun("refresh", TRUE, FALSE, "refreshed", 0, <<>>)
    /\ UNCHANGED <<cmHost, cmToken>>

\* handleSettingToken: the token is stored, then verified with
\* new GiteaClient().getCurrentUser(); a failure clears the token again
CmSettingToken(input, first, second, outcome) ==
    /\ UNCHANGED NotCmd
    /\ IF ~input.has
       THEN /\ cmLast' = CmdRun("settingToken", SettingsConfigured(cmHost, cmToken),
                                TRUE, "none", 0, <<>>)
            /\ UNCHANGED cmToken
       ELSE /\ cmToken' = IF outcome.kind = "ok" THEN input.value ELSE <<>>
            /\ cmLast' =
                  Requested("settingToken", SettingsConfigured(cmHost, input.value),
                            initializeConnection(ClientConstruct(cmHost), first, second),
                            UserEndpoint, outcome, "tokenSaved", "tokenInvalid")
    /\ UNCHANGED cmHost

\* handleSettingHost: the prompt accepts only http(s)://.../api/v1
CmSettingHost(input) ==
    /\ UNCHANGED NotCmd
    /\ IF ~input.has
       THEN /\ cmLast' = CmdRun("settingHost", SettingsConfigured(cmHost, cmToken),
                                TRUE, "none", 0, <<>>)
            /\ UNCHANGED cmHost
       ELSE /\ cmHost' = input.value
            /\ cmLast' = CmdRun("settingHost", SettingsConfigured(input.value, cmToken),
                                FALSE, "hostSaved", 0, <<>>)
    /\ UNCHANGED cmToken

\* the user edits g2r.host and g2r.token in the settings editor
CmEdit(host, token) ==
    /\ UNCHANGED NotCmd
    /\ <<host, token>> # <<cmHost, cmToken>>
    /\ cmHost' = host
    /\ cmToken' = token
    /\ cmLast' = NoRun

CmdNext ==
    \/ \E p \in BOOLEAN, f \in FetchOutcomes, g \in FetchOutcomes, o \in FetchOutcomes :
          CmAccept(p, f, g, o)
    \/ \E p \in BOOLEAN, f \in FetchOutcomes, g \in FetchOutcomes, o \in FetchOutcomes :
          CmReject(p, f, g, o)
    \/ \E f \in FetchOutcomes, g \in FetchOutcomes, o \in FetchOutcomes :
          CmDiff(f, g, o)
    \/ CmRefresh
    \/ \E i \in {Undefined} \cup {Defined(t) : t \in CmdTokens \ {<<>>}}, f \in FetchOutcomes, g \in FetchOutcomes,
          o \in FetchOutcomes : CmSettingToken(i, f, g, o)
    \/ \E i \in {Undefined} \cup {Defined(h) : h \in CmdHosts \ {<<>>}} : CmSettingHost(i)
    \/ \E h \in CmdHosts, t \in CmdTokens : CmEdit(h, t)

vars == <<codecVars, fsVars, clientVars, syncVars, pushVars, apiVars, authVars, sessionVars, localVars, cloneVars, probeVars, credVars, openVars, timerVars, cmdVars>>

\* each component runs on its own; the others rest in their initial state
CodecRest ==
    /\ codecArgs = NoArgs
    /\ codecUri = <<>>
    /\ codecParsed = ParseFailed
    /\ codecPhase = "rest"

FsRest ==
    /\ fsCache = <<>>
    /\ fsClients = {}
    /\ fsLast = Idle
    /\ fsFirst = <<>>
    /\ authTokens = {}
    /\ remote = [a \in Addresses |-> Missing]

ClientRest ==
    /\ clBaseUrl = <<>>
    /\ clCtorUrl = <<>>
    /\ clDetected = FALSE
    /\ clProbes = <<>>
    /\ clDetections = 0
    /\ clRequests = 0
    /\ clLast = NoRequest

SyncRest ==
    /\ wcHasGit = FALSE
    /\ wcFiles = <<>>
    /\ wcTracking = FALSE
    /\ wcLocal = {}
    /\ wcUpstream = {}
    /\ syncLast = NoCall

PushRest ==
    pushLast = NoPush

ApiRest ==
    apiLast = NoApiCall

AuthRest ==
    /\ amVault = <<>>
    /\ amCache = <<>>
    /\ amLatest = <<>>
    /\ amLast = AmIdle

SessionRest ==
    /\ cfgHost = <<>>
    /\ cfgToken = <<>>
    /\ currentServer = NullValue
    /\ treeServer = <<>>
    /\ knownServers = {}
    /\ testedOwn = {}
    /\ testedSince = {}
    /\ sessLast = NoCommand

LocalRest ==
    /\ rootExists = FALSE
    /\ rootEntries = <<>>
    /\ listLast = NoListing

CloneRest ==
    /\ cloneJob = NoJob
    /\ cloneProc = "none"
    /\ taskPromise = Unmade
    /\ clonePromise = Unmade
    /\ cloneCancelled = FALSE
    /\ closeCode = NoCode
    /\ cloneShown = {}
    /\ diskDirs = <<>>
    /\ metaFiles = <<>>

ProbeRest ==
    /\ prBaseUrl = <<>>
    /\ prDetected = FALSE
    /\ prRuns = 0
    /\ prReq = [c \in Callers |-> NotStartedRequest]

CredRest ==
    /\ crVault = <<>>
    /\ crCache = <<>>
    /\ crCall = [c \in Callers |-> NotCalled]

OpenRest ==
    /\ opServer = NullValue
    /\ opKeys = {}
    /\ opTree = NoTree
    /\ opLast = NoOpen

TimerRest ==
    /\ tmPhase = "inactive"
    /\ tmScheduled = {}
    /\ refreshTimer = NullTimer
    /\ tmDisposables = 0
    /\ tmTicks = [h \in TimerHandles |-> 0]
    /\ tmHost = <<>>
    /\ tmToken = <<>>
    /\ tmRequests = 0

CmdRest ==
    /\ cmHost = <<>>
    /\ cmToken = <<>>
    /\ cmLast = NoRun

InitCodec == CodecInit /\ FsRest /\ ClientRest /\ SyncRest /\ PushRest /\ ApiRest /\ AuthRest /\ SessionRest /\ LocalRest /\ CloneRest /\ ProbeRest /\ CredRest /\ OpenRest /\ TimerRest /\ CmdRest

SpecCodec == InitCodec /\ [][CodecNext]_vars

InitFs == FsInit /\ CodecRest /\ ClientRest /\ SyncRest /\ PushRest /\ ApiRest /\ AuthRest /\ SessionRest /\ LocalRest /\ CloneRest /\ ProbeRest /\ CredRest /\ OpenRest /\ TimerRest /\ CmdRest

SpecFs == InitFs /\ [][FsNext]_vars

InitClient == ClientInit /\ CodecRest /\ FsRest /\ SyncRest /\ PushRest /\ ApiRest /\ AuthRest /\ SessionRest /\ LocalRest /\ CloneRest /\ ProbeRest /\ CredRest /\ OpenRest /\ TimerRest /\ CmdRest

SpecClient == InitClient /\ [][ClientNext]_vars

InitSync == SyncInit /\ CodecRest /\ FsRest /\ ClientRest /\ PushRest /\ ApiRest /\ AuthRest /\ SessionRest /\ LocalRest /\ CloneRest /\ ProbeRest /\ CredRest /\ OpenRest /\ TimerRest /\ CmdRest

SpecSync == InitSync /\ [][SyncNext]_vars

InitPush == SyncInit /\ PushRest /\ CodecRest /\ FsRest /\ ClientRest /\ ApiRest /\ AuthRest /\ SessionRest /\ LocalRest /\ CloneRest /\ ProbeRest /\ CredRest /\ OpenRest /\ TimerRest /\ CmdRest

SpecPush == InitPush /\ [][PushNext]_vars

InitApi == ClientInit /\ ApiRest /\ CodecRest /\ FsRest /\ SyncRest /\ PushRest /\ AuthRest /\ SessionRest /\ LocalRest /\ CloneRest /\ ProbeRest /\ CredRest /\ OpenRest /\ TimerRest /\ CmdRest

SpecApi == InitApi /\ [][ApiNext]_vars

InitAuth == AmInit /\ CodecRest /\ FsRest /\ ClientRest /\ SyncRest /\ PushRest /\ ApiRest /\ SessionRest /\ LocalRest /\ CloneRest /\ ProbeRest /\ CredRest /\ OpenRest /\ TimerRest /\ CmdRest

SpecAuth == InitAuth /\ [][AuthNext]_vars

InitSession == SessionInit /\ AmInit /\ FsServing /\ CodecRest /\ ClientRest /\ SyncRest /\ PushRest /\ ApiRest /\ LocalRest /\ CloneRest /\ ProbeRest /\ CredRest /\ OpenRest /\ TimerRest /\ CmdRest

SpecSession == InitSession /\ [][SessionNext]_vars

InitLocal == LocalInit /\ CodecRest /\ FsRest /\ ClientRest /\ SyncRest /\ PushRest /\ ApiRest /\ AuthRest /\ SessionRest /\ CloneRest /\ ProbeRest /\ CredRest /\ OpenRest /\ TimerRest /\ CmdRest

SpecLocal == InitLocal /\ [][LocalNext]_vars

InitClone == CloneInit /\ CodecRest /\ FsRest /\ ClientRest /\ SyncRest /\ PushRest /\ ApiRest /\ AuthRest /\ SessionRest /\ LocalRest /\ ProbeRest /\ CredRest /\ OpenRest /\ TimerRest /\ CmdRest

SpecClone == InitClone /\ [][CloneNext]_vars

\* the git child process ends: Node delivers its close or its error event
ProcEnds ==
    \/ ProcError
    \/ \E code \in {Code(0), Code(128), Signalled}, err \in StderrTexts :
          ProcClose(code, err)

\* the clone command with a child process that does not run for ever; the
\* user's commands are under no obligation
SpecCloneFair == InitClone /\ [][CloneNext]_vars /\ WF_vars(ProcEnds)

InitProbe == ProbeInit /\ CodecRest /\ FsRest /\ ClientRest /\ SyncRest /\ PushRest /\ ApiRest /\ AuthRest /\ SessionRest /\ LocalRest /\ CloneRest /\ CredRest /\ OpenRest /\ TimerRest /\ CmdRest

SpecProbe == InitProbe /\ [][ProbeNext]_vars

InitCred == CredInit /\ CodecRest /\ FsRest /\ ClientRest /\ SyncRest /\ PushRest /\ ApiRest /\ AuthRest /\ SessionRest /\ LocalRest /\ CloneRest /\ ProbeRest /\ OpenRest /\ TimerRest /\ CmdRest

SpecCred == InitCred /\ [][CredNext]_vars

InitOpen == OpenInit /\ CodecRest /\ FsRest /\ ClientRest /\ SyncRest /\ PushRest /\ ApiRest /\ AuthRest /\ SessionRest /\ LocalRest /\ CloneRest /\ ProbeRest /\ CredRest /\ TimerRest /\ CmdRest

SpecOpen == InitOpen /\ [][OpenNext]_vars

InitTimer == TimerInit /\ CodecRest /\ FsRest /\ ClientRest /\ SyncRest /\ PushRest /\ ApiRest /\ AuthRest /\ SessionRest /\ LocalRest /\ CloneRest /\ ProbeRest /\ CredRest /\ OpenRest /\ CmdRest

SpecTimer == InitTimer /\ [][TimerNext]_vars

InitCmd == CmdInit /\ CodecRest /\ FsRest /\ ClientRest /\ SyncRest /\ PushRest /\ ApiRest /\ AuthRest /\ SessionRest /\ LocalRest /\ CloneRest /\ ProbeRest /\ CredRest /\ OpenRest /\ TimerRest

SpecCmd == InitCmd /\ [][CmdNext]_vars

(***************************************************************************)
(* Properties of the URI codec                                             *)
(***************************************************************************)
NameChars == Letters \cup Digits \cup {".", "-", "_"}

IsName(s) ==
    /\ s # <<>>
    /\ \A i \in 1..Len(s) : s[i] \in NameChars
    /\ s \notin {<<".">>, <<".", ".">>}

\* a hostname, optionally followed by :port
IsHostPort(s) ==
    LET parts == Split(s, ":")
    IN /\ Len(parts) \in {1, 2}
       /\ IsName(parts[1])
       /\ Len(parts) = 2 =>
            /\ parts[2] # <<>>
            /\ \A i \in 1..Len(parts[2]) : parts[2][i] \in Digits

IsSlashedName(s) ==
    LET parts == Split(s, "/")
    IN \A i \in 1..Len(parts) : IsName(parts[i])

ValidArgs(a) ==
    /\ IsHostPort(a.server)
    /\ IsName(a.owner)
    /\ IsName(a.repo)
    /\ a.path = <<>> \/ IsSlashedName(a.path)
    /\ IsSlashedName(a.ref)

\* C3: for every valid (server, owner, repo, path, ref) with ref # "HEAD",
\* the server being a hostname optionally followed by :port,
\* parseGiteaUri(createGiteaUri(...)) returns exactly the original values.
C3_RoundTrip ==
    (codecPhase = "parsedBuilt" /\ ValidArgs(codecArgs) /\ codecArgs.ref # HEAD)
        => /\ codecParsed.ok
           /\ codecParsed.server = codecArgs.server
           /\ codecParsed.owner = codecArgs.owner
           /\ codecParsed.repo = codecArgs.repo
           /\ codecParsed.path = codecArgs.path
           /\ codecParsed.ref = codecArgs.ref

\* the non-empty path segments a gitea:// URI string supplies after its
\* authority, read off the string itself
SuppliedSegments(uri) ==
    LET after == Slice(uri, Len(GiteaPrefix))
        cut == FirstOf(after, {"?", "#"})
        hierPart == IF cut = 0 THEN after ELSE SubSeq(after, 1, cut - 1)
        parts == Tail(Split(hierPart, "/"))
    IN Cardinality({i \in 1..Len(parts) : parts[i] # <<>>})

\* C4: parseGiteaUri fails for every URI whose scheme is not gitea and for
\* every URI that supplies fewer than two path segments (owner, repo); every
\* address it returns has a non-empty owner and a non-empty repo.
C4_ParseRejects ==
    codecPhase \in {"parsedBuilt", "parsedRaw"} =>
        /\ ~StartsWith(codecUri, GiteaScheme \o <<":">>) => ~codecParsed.ok
        /\ (StartsWith(codecUri, GiteaPrefix) /\ SuppliedSegments(codecUri) < 2)
              => ~codecParsed.ok
        /\ codecParsed.ok =>
              (codecParsed.owner # <<>> /\ codecParsed.repo # <<>>)

HasRefParam(uri) == Includes(uri, RefParam)

\* C5 as stated: createGiteaUri emits a ?ref= parameter if and only if ref
\* is not "HEAD".
C5_RefParamIffNotHead ==
    codecPhase \in {"built", "parsedBuilt"} =>
        (HasRefParam(codecUri) <=> codecArgs.ref # HEAD)

\* C5 (amended): createGiteaUri emits a ?ref= parameter if and only if ref is
\* non-empty and not "HEAD"; parseGiteaUri of a URI without a ref parameter
\* yields ref = "HEAD"; parsing what createGiteaUri built for "HEAD" yields
\* ref = "HEAD".
C5_HeadAsymmetry ==
    /\ codecPhase \in {"built", "parsedBuilt"} =>
          /\ HasRefParam(codecUri) <=>
                (codecArgs.ref # <<>> /\ codecArgs.ref # HEAD)
          /\ HasRefParam(codecUri) =>
                EndsWith(codecUri, RefParam \o codecArgs.ref)
    /\ (/\ codecPhase \in {"parsedBuilt", "parsedRaw"}
        /\ codecParsed.ok
        /\ ~Includes(codecUri, RefName \o <<"=">>))
          => codecParsed.ref = HEAD
    /\ (codecPhase = "parsedBuilt" /\ codecArgs.ref = HEAD)
          => (codecParsed.ok /\ codecParsed.ref = HEAD)

C5_Witness ==
    /\ codecPhase = "parsedBuilt"
    /\ codecArgs.ref = HEAD
    /\ ~HasRefParam(codecUri)
    /\ codecParsed.ok
    /\ codecParsed.ref = HEAD

(***************************************************************************)
(* Properties of the virtual filesystem provider                           *)
(***************************************************************************)
\* C1: with no clearCache/clearServerCache in between, the first successful
\* readFile of a URI issues exactly one getFileContent fetch, and every later
\* readFile of the identical URI string issues no fetch and returns the bytes
\* of the first result.
C1_CachedRead ==
    fsLast.op = "readFile" =>
        /\ fsLast.seenBefore =>
              /\ fsLast.err = "none"
              /\ fsLast.fetches = 0
              /\ fsLast.uri \in DOMAIN fsFirst
              /\ fsLast.result = fsFirst[fsLast.uri]
        /\ (~fsLast.seenBefore /\ fsLast.err = "none") => fsLast.fetches = 1

\* a later read answered with the first bytes although the forge now holds
\* other content
C1_Witness ==
    /\ fsLast.op = "readFile"
    /\ fsLast.seenBefore
    /\ fsLast.fetches = 0
    /\ LET addr == Address(FsParsed[fsLast.uri])
       IN /\ remote[addr].kind = "file"
          /\ Utf8Encode(Utf8Decode(remote[addr].bytes)) # fsLast.result
          /\ fsLast.result = fsFirst[fsLast.uri]

\* C2: writeFile, delete, rename and createDirectory fail with NoPermissions
\* for every argument and in every state, issue no API request and leave the
\* content cache and the client map unchanged; no other operation fails with
\* NoPermissions.
C2_ReadOnly ==
    /\ [](/\ fsLast.op \in WriteOps =>
                /\ fsLast.err = "NoPermissions"
                /\ fsLast.requests = 0
                /\ fsLast.fetches = 0
          /\ fsLast.err = "NoPermissions" => fsLast.op \in WriteOps)
    /\ [][fsLast'.op \in WriteOps =>
             (fsCache' = fsCache /\ fsClients' = fsClients)]_vars

\* a write rejected while the cache and the client map hold entries
C2_Witness ==
    /\ fsLast.op \in WriteOps
    /\ fsLast.err = "NoPermissions"
    /\ fsLast.uri \in DOMAIN fsCache
    /\ fsClients # {}

(***************************************************************************)
(* Properties of protocol detection                                        *)
(***************************************************************************)
\* error messages of the SSL class: a protocol mismatch or a certificate
\* problem
SslClassMessages == {<<"w", "r", "i", "t", "e", " ", "E", "P", "R", "O", "T", "O">>, <<"C", "E", "R", "T", "_", "H", "A", "S", "_", "E", "X", "P", "I", "R", "E", "D">>}

FailedSsl(p) ==
    /\ p.outcome.kind = "error"
    /\ p.outcome.message \in SslClassMessages

Failed(p) == p.outcome.kind # "ok"

BothProbesFailed ==
    /\ Len(clProbes) = 2
    /\ Failed(clProbes[1])
    /\ Failed(clProbes[2])

\* C7: detection runs before the first request is sent and never again,
\* whatever its outcome; when both probes fail the base URL is the one the
\* constructor computed, detection is marked complete, and requests are
\* still sent, to that base URL.
C7_DetectOnce ==
    /\ [](/\ clDetections <= 1
          /\ clRequests > 0 => (clDetected /\ clDetections = 1)
          /\ clDetections = 1 => clDetected
          /\ BothProbesFailed =>
                /\ clBaseUrl = clCtorUrl
                /\ clDetected
                /\ clRequests > 0
                /\ StartsWith(clLast.url, clCtorUrl))
    /\ [][/\ clDetected => (clProbes' = clProbes /\ clBaseUrl' = clBaseUrl
                            /\ clDetections' = clDetections)
          /\ (clDetected /\ clRequests < MaxRequests) =>
                ENABLED ClientRequest(<<"/", "u", "s", "e", "r">>, Ok)]_vars

\* both probes failed and a second request went out all the same
C7_Witness ==
    /\ BothProbesFailed
    /\ clProbes[2].outcome.kind = "error"
    /\ clDetected
    /\ clRequests = 2
    /\ clLast.url = clCtorUrl \o <<"/", "u", "s", "e", "r">>

(***************************************************************************)
(* Properties of getSyncStatus                                             *)
(***************************************************************************)
Answered == syncLast.called /\ wcHasGit /\ syncLast.errors = 0

PathsWith(codes) ==
    SelectSeq(WcPaths, LAMBDA q :
        \E i \in 1..Len(WcPaths) : WcPaths[i] = q /\ wcFiles[i] \in codes)

\* C8: isDirty is true exactly when the status output has a line that is
\* not an untracked line, and untracked lists the untracked paths.
C8_DirtyIffTrackedChange ==
    Answered =>
        /\ syncLast.isDirty <=>
              \E i \in 1..Len(WcPaths) : wcFiles[i] \in {Modified, Staged}
        /\ syncLast.untracked = PathsWith({Untracked})

\* C9: with an upstream ref, ahead counts the commits reachable from HEAD
\* and not from upstream, behind those reachable from upstream and not from
\* HEAD; without one both are 0 and no error is shown.
C9_AheadBehind ==
    (syncLast.called /\ wcHasGit) =>
        IF wcTracking
        THEN syncLast.errors = 0 =>
                /\ syncLast.ahead = Cardinality(wcLocal \ wcUpstream)
                /\ syncLast.behind = Cardinality(wcUpstream \ wcLocal)
        ELSE syncLast.ahead = 0 /\ syncLast.behind = 0

\* C10: without a .git directory the call answers the all-clear status,
\* runs no git command and shows no error.
C10_NoGitNoCommand ==
    (syncLast.called /\ ~wcHasGit) =>
        /\ syncLast.isDirty = FALSE
        /\ syncLast.ahead = 0
        /\ syncLast.behind = 0
        /\ syncLast.untracked = <<>>
        /\ syncLast.commands = <<>>
        /\ syncLast.errors = 0

\* a call on a directory that holds a changed file and no .git
C10_Witness ==
    /\ syncLast.called
    /\ ~wcHasGit
    /\ wcFiles[1] = Untracked

(***************************************************************************)
(* Properties of syncToGitea                                               *)
(***************************************************************************)
Issued(step) ==
    \E i \in 1..Len(pushLast.run.commands) : pushLast.run.commands[i] = step

Steps == <<"add", "status", "prompt", "commit", "push">>

\* C12: the steps of a run are a prefix of stage-all, status, prompt,
\* commit, push and nothing else; the step that fails is the last one;
\* commit needs a non-empty message and push a commit that succeeded; a
\* failed push leaves the new commit in the local history and a dismissed
\* prompt leaves every change staged.
C12_StepOrder ==
    pushLast.called =>
        /\ Len(pushLast.run.commands) <= Len(Steps)
        /\ \A i \in 1..Len(pushLast.run.commands) :
              /\ pushLast.run.commands[i] = Steps[i]
              /\ i < Len(pushLast.run.commands) =>
                    pushLast.run.commands[i] # pushLast.fail
        /\ pushLast.run.errors = 1 => pushLast.run.info = "none"
        /\ Issued("commit") =>
              pushLast.answer.given /\ pushLast.answer.text # <<>>
        /\ Issued("push") =>
              /\ pushLast.fail # "commit"
              /\ wcLocal # pushLast.localBefore
              /\ pushLast.localBefore \subseteq wcLocal
              /\ \A i \in 1..Len(WcPaths) : wcFiles[i] = Clean
        /\ (Issued("push") /\ pushLast.run.errors = 1) =>
              ~(wcLocal \subseteq wcUpstream)
        /\ pushLast.run.commands = <<"add", "status", "prompt">> =>
              /\ wcLocal = pushLast.localBefore
              /\ \A i \in 1..Len(WcPaths) :
                    pushLast.before[i] # Clean =>
                        wcFiles[i] \in {Staged, StagedModified}

\* a run whose push failed after the commit was made
C12_Witness ==
    /\ pushLast.called
    /\ pushLast.run.commands = Steps
    /\ pushLast.run.errors = 1
    /\ wcLocal # pushLast.localBefore

(***************************************************************************)
(* Properties of the client operations                                     *)
(***************************************************************************)
RequestFailed ==
    apiLast.op # "none" /\ apiLast.response.kind \in {"notOk", "error"}

\* C13: getRepositoryContents answers the empty list to every transport
\* failure and every non-2xx response; every other operation throws in
\* those cases, and for a non-2xx response the error names the status, the
\* status text and the endpoint.
C13_FailurePolicy ==
    RequestFailed =>
        IF apiLast.op = "getRepositoryContents"
        THEN apiLast.result = Returned("emptyList")
        ELSE /\ apiLast.result.kind = "thrown"
             /\ apiLast.response.kind = "notOk" =>
                   /\ Includes(apiLast.result.message,
                               ToDecimal(apiLast.response.status))
                   /\ Includes(apiLast.result.message,
                               apiLast.response.statusText)
                   /\ Includes(apiLast.result.message, apiLast.endpoint)

\* listDirectoryContents met a 404 on the endpoint getRepositoryContents
\* would have asked
C13_Witness ==
    /\ apiLast.op = "listDirectoryContents"
    /\ apiLast.response.kind = "notOk"
    /\ apiLast.response.status = 404
    /\ apiLast.result.kind = "thrown"
    /\ apiLast.endpoint = ApiTable["getRepositoryContents"].endpoint

\* the cache restricted to the keys that do not contain the server string
KeptKeys(server) == {k \in DOMAIN fsCache : ~Includes(k, server)}

\* C16: a cache entry appears only for the URI of a readFile whose fetch
\* succeeded; entries disappear only by clearCache, which empties the cache,
\* or by clearServerCache(server), which removes exactly the keys containing
\* the server string; every other step leaves the cache as it was.
C16_CacheFrame ==
    [][fsCache' # fsCache =>
        \/ /\ fsLast'.op = "readFile"
           /\ fsLast'.err = "none"
           /\ fsLast'.fetches = 1
           /\ fsLast'.uri \notin DOMAIN fsCache
           /\ DOMAIN fsCache' = DOMAIN fsCache \cup {fsLast'.uri}
           /\ fsCache'[fsLast'.uri] = fsLast'.result
           /\ \A k \in DOMAIN fsCache : fsCache'[k] = fsCache[k]
        \/ /\ fsLast'.op = "clearCache"
           /\ fsCache' = <<>>
        \/ /\ fsLast'.op = "clearServerCache"
           /\ DOMAIN fsCache' = KeptKeys(fsLast'.uri)
           /\ \A k \in DOMAIN fsCache' : fsCache'[k] = fsCache[k]]_vars

\* clearServerCache has removed the entries of one server and kept another's
C16_Witness ==
    /\ fsLast.op = "clearServerCache"
    /\ fsLast.uri = <<"h">>
    /\ <<"h">> \in fsClients
    /\ DOMAIN fsCache = {UriDir}

(***************************************************************************)
(* Properties of the credential store                                      *)
(***************************************************************************)
\* C14: getToken(server) answers the token of the latest setToken(server)
\* not followed by deleteToken(server), and no token after deleteToken; when
\* the map holds the server, getToken does not read the vault.
C14_LatestToken ==
    /\ [](amLast.op = "getToken" =>
            /\ amLast.result.has = amLatest[amLast.server].has
            /\ amLast.result.value = amLatest[amLast.server].value)
    /\ [][(amLast'.op = "getToken" /\ amLast'.server \in DOMAIN amCache) =>
            amLast'.vaultReads = 0]_vars

\* getToken after setToken, deleteToken on one server and a second setToken
\* on the other, answered from the vault after a fresh activation
C14_Witness ==
    /\ amLast.op = "getToken"
    /\ amLast.server = <<"g">>
    /\ amLast.result = Defined(<<"t", "2">>)
    /\ amLast.vaultReads = 1
    /\ amLatest[<<"h">>].deleted

(***************************************************************************)
(* Properties of the session                                               *)
(***************************************************************************)
\* what the credential store answers for a server
Stored(vault, cache, server) ==
    IF server \in DOMAIN cache THEN Defined(cache[server].token)
    ELSE VaultGet(vault, TokenKey(server))

\* C15 as stated: the store holds a token for a server only if a connection
\* test with that token against that server succeeded since the last
\* disconnect.
C15_SinceLastDisconnect ==
    \A sv \in AmServers :
        Stored(amVault, amCache, sv).has =>
            <<sv, Stored(amVault, amCache, sv).value>> \in testedSince

\* C15: the store holds a token for a server only if a connection test with
\* that token against that server succeeded since the last disconnect that
\* was executed while connected to that server; a connect that is cancelled
\* or whose test fails stores nothing; a disconnect removes the credential
\* of the server that was connected.
C15_CredentialLifecycle ==
    /\ [](\A sv \in AmServers :
            /\ Stored(amVault, amCache, sv).has =>
                 <<sv, Stored(amVault, amCache, sv).value>> \in testedOwn
            /\ TokenKey(sv) \in DOMAIN amVault =>
                 <<sv, amVault[TokenKey(sv)]>> \in testedOwn)
    /\ [][(sessLast'.outcome \in {"noServer", "noToken", "testFailed"}) =>
            (amVault' = amVault /\ amCache' = amCache)]_vars
    /\ [][(currentServer.has /\ sessLast'.outcome = "disconnected") =>
            (/\ ~Stored(amVault', amCache', currentServer.value).has
             /\ TokenKey(currentServer.value) \notin DOMAIN amVault')]_vars

\* a failed test against g while h, connected earlier, keeps its credential
\* and g's was removed by a disconnect
C15_Witness ==
    /\ sessLast.outcome = "testFailed"
    /\ sessLast.test.server = <<"g">>
    /\ amLatest[<<"g">>].deleted
    /\ Stored(amVault, amCache, <<"h">>) = Defined(<<"t", "1">>)
    /\ ~Stored(amVault, amCache, <<"g">>).has

\* C17: after gitea.disconnect executed while connected to server S, no
\* cached entry of S remains, and the cached entries whose URI does not
\* contain S are still present.
C17_DisconnectClearsServer ==
    [][(currentServer.has /\ sessLast'.outcome = "disconnected") =>
        \A k \in DOMAIN fsCache :
            /\ FsParsed[k].server = currentServer.value =>
                 k \notin DOMAIN fsCache'
            /\ ~Includes(k, currentServer.value) =>
                 (k \in DOMAIN fsCache' /\ fsCache'[k] = fsCache[k])]_vars

(***************************************************************************)
(* Properties of getLocalRepositories                                      *)
(***************************************************************************)
SlashFree(t) == Len(t) > 0 /\ \A i \in 1..Len(t) : t[i] # "/"

\* url ends in /owner/name or in /owner/name.git
EndsInOwnerName(url, owner, name) ==
    /\ SlashFree(owner)
    /\ SlashFree(name)
    /\ \/ EndsWith(url, <<"/">> \o owner \o <<"/">> \o name)
       \/ EndsWith(url, <<"/">> \o owner \o <<"/">> \o name \o DotGit)

\* every (owner, name) the url ends in
OwnerNames(url) ==
    {p \in {<<SubSeq(url, a, b), SubSeq(url, b + 2, d)>> :
               a \in 1..Len(url), b \in 1..Len(url), d \in 1..Len(url)} :
        EndsInOwnerName(url, p[1], p[2])}

Qualifying == [u \in OriginUrls |-> OwnerNames(Trim(u))]

\* the entries that are repositories with a remote url of the required form
QualifyingAt(entries) ==
    {i \in DOMAIN entries :
        /\ entries[i].kind \in RepoKinds
        /\ entries[i].origin.ok
        /\ Qualifying[entries[i].origin.stdout] # {}}

EntryPath(i) == Root \o <<"/">> \o EntryNames[i]

\* repos holds exactly one well-formed config per qualifying entry
ExactlyOnePer(entries, repos) ==
    /\ Len(repos) = Cardinality(QualifyingAt(entries))
    /\ {repos[k].path : k \in DOMAIN repos} =
          {EntryPath(i) : i \in QualifyingAt(entries)}
    /\ \A k \in DOMAIN repos : \E i \in QualifyingAt(entries) :
          /\ repos[k].path = EntryPath(i)
          /\ repos[k].cloneUrl = Trim(entries[i].origin.stdout)
          /\ <<repos[k].owner, repos[k].name>> \in
                Qualifying[entries[i].origin.stdout]

\* the entries before the first one statSync throws for
Readable(entries) ==
    SubSeq(entries, 1,
           CHOOSE n \in 0..Len(entries) :
              /\ \A i \in 1..n : entries[i].kind # "broken"
              /\ n < Len(entries) => entries[n + 1].kind = "broken")

C19_CancelPropagates ==
    cloneCancelled => clonePromise = Rejected(CloneCancelled)

\* C20: a clone whose git process closed with code 0 has the metadata file
\* in the cloned folder, and every metadata file has a non-empty owner and
\* a non-empty repo.
C20_MetadataAfterClone ==
    /\ (cloneProc = "closed" /\ closeCode = Code(0)) =>
          cloneJob.target \in DOMAIN metaFiles
    /\ \A d \in DOMAIN metaFiles :
          Len(metaFiles[d].owner) > 0 /\ Len(metaFiles[d].repo) > 0

(***************************************************************************)
(* A commit whose push failed                                              *)
(***************************************************************************)
\* the commits the run recorded in pushLast created
CommittedBy(last) == last.run.local \ last.localBefore

\* C28: when a run committed and its push failed, a later run on the same
\* working copy with no edit in between that meets no failing command
\* pushes that commit, provided the remote can be fast-forwarded.
C28_NoStrandedCommit ==
    [][(/\ pushLast.called
        /\ pushLast.run.commands = Steps
        /\ pushLast.run.errors = 1
        /\ wcUpstream \subseteq wcLocal
        /\ pushLast'.called
        /\ pushLast'.fail = "none"
        /\ pushLast'.run.errors = 0) =>
            CommittedBy(pushLast) \subseteq wcUpstream']_vars

(***************************************************************************)
(* The protocol probe under concurrent requests                            *)
(***************************************************************************)
\* C22: however the requests started on a fresh client interleave,
\* detectProtocol is executed at most once and all the requests that were
\* sent used the same base URL.
C22_OneProbePerClient ==
    /\ prRuns <= 1
    /\ \A c \in Callers, k \in Callers :
          (prReq[c].pc = "sent" /\ prReq[k].pc = "sent") =>
              prReq[c].base = prReq[k].base

(***************************************************************************)
(* The Credential Store under concurrent calls                             *)
(***************************************************************************)
\* every call that was started has returned
Quiescent == \A c \in Callers : crCall[c].pc \in {"new", "done"}

\* C23: however concurrently started setToken, deleteToken and getToken
\* calls for one server interleave at their awaits, once all of them have
\* completed the map holds a token for the server exactly when the vault
\* holds one, and the two tokens are equal.
C23_NoCredentialRace ==
    Quiescent =>
        /\ (CredServer \in DOMAIN crCache) <=> (TokenKey(CredServer) \in DOMAIN crVault)
        /\ (CredServer \in DOMAIN crCache) =>
               crCache[CredServer].token = crVault[TokenKey(CredServer)]

(***************************************************************************)
(* Termination of the local clone                                          *)
(***************************************************************************)
Settled(promise) == promise.state \in {"fulfilled", "rejected"}

\* C27: once the git child process has closed or the user has cancelled,
\* the promise performLocalClone returned eventually settles.
C27_CloneTerminates ==
    ((cloneProc = "closed" \/ cloneCancelled) /\ clonePromise.state = "pending")
        ~> Settled(clonePromise)

(***************************************************************************)
(* Requests after a disconnect                                             *)
(***************************************************************************)
\* C25: a read of the Virtual Filesystem sends a request to a server only
\* while the Credential Store holds a token for that server: after
\* gitea.disconnect and until the next successful connect the read fails
\* for lack of a token.
C25_NoRequestAfterDisconnect ==
    [][(fsLast' # fsLast /\ fsLast'.requests > 0) =>
           FsParsed[fsLast'.uri].server \in authTokens]_vars

(***************************************************************************)
(* Properties of opening a remote file                                     *)
(***************************************************************************)
\* the address the Virtual Filesystem reads for the opened URI is the one
\* that was meant
AddressesMeant(open) ==
    /\ open.parsed.ok
    /\ open.parsed.server = open.meant.server
    /\ open.parsed.owner = open.meant.owner
    /\ open.parsed.repo = open.meant.repo
    /\ open.parsed.path = open.meant.path
    /\ open.parsed.ref = open.meant.ref

\* C26: after a successful connect to a server string, handleOpenFile with
\* that string produces a URI whose parsed server is the key the token was
\* stored under, so getClient finds the token.
C26_ServerKeyConsistent ==
    opLast.via = "call" =>
        /\ opLast.parsed.ok
        /\ opLast.parsed.server = opLast.meant.server
        /\ opLast.tokenFound

\* C29: a click on a file entry of the file tree opens the URI that
\* addresses (connected server, current owner, current repo, entry.path,
\* current branch).
C29_TreeItemOpensItsFile ==
    opLast.via = "tree" => AddressesMeant(opLast)

(***************************************************************************)
(* stat and readDirectory                                                  *)
(***************************************************************************)
\* the contents endpoint answers a directory listing for the URI, and
\* getClient has a client or a token for its server
IsRemoteDirectory(uri) ==
    /\ FsParsed[uri].ok
    /\ CanGetClient(FsParsed[uri].server)
    /\ remote[Address(FsParsed[uri])].kind = "dir"

\* C30: stat agrees with readDirectory on what exists: stat of a URI that
\* readDirectory can list (an existing remote directory) can succeed, it
\* does not fail with FileNotFound whatever the request returns.
C30_StatOfDirectorySucceeds ==
    \A u \in FsUris :
        IsRemoteDirectory(u) => ENABLED (FsStat(u) /\ fsLast'.err = "none")

(***************************************************************************)
(* Properties of the refresh timer                                         *)
(***************************************************************************)
\* the context subscriptions of an activated extension were disposed
Disposed == tmPhase # "inactive" /\ tmDisposables = 0

\* C24: after activate exactly one interval timer is scheduled, its
\* callbacks issue no request, and after deactivate or the disposal of the
\* context subscriptions no timer remains scheduled.
C24_SoleTimer ==
    /\ (tmPhase = "active" /\ ~Disposed) => Cardinality(tmScheduled) = 1
    /\ tmRequests = 0
    /\ (tmPhase = "deactivated" \/ Disposed) => tmScheduled = {}

(***************************************************************************)
(* Properties of the command handlers                                      *)
(***************************************************************************)
CheckedHandlers == {"accept", "reject", "diff", "refresh", "settingToken"}

\* C21: a handler that runs while the token setting or the host setting is
\* empty, and whose prompts were not dismissed, makes no fetch and shows a
\* message.
C21_ConfigurationCheckedFirst ==
    (/\ cmLast.handler \in CheckedHandlers
     /\ ~cmLast.configured
     /\ ~cmLast.dismissed) =>
        /\ cmLast.fetches = 0
        /\ cmLast.message # "none"

=============================================================================
